---- MODULE Spec2Model ----
(***************************************************************************)
(* Polling application: polls, poll options, votes and discussion threads  *)
(* held in the relational store, the server actions that read and write    *)
(* them, the database triggers / row-level policies / constraints that     *)
(* guard every write, and the keyword classification of thrown errors.     *)
(*                                                                         *)
(* Strings whose content is inspected by the code (error messages and the  *)
(* keyword lists of classifyError) are sequences of one-character strings, *)
(* so that String.includes and String.toLowerCase are computed and not     *)
(* assumed.  Texts whose content is never inspected (titles, descriptions, *)
(* option texts) are symbolic names with a length given by TextLen.        *)
(***************************************************************************)
EXTENDS Integers, Sequences, FiniteSets, TLC

(***************************************************************************)
(* Bounds of the model                                                     *)
(***************************************************************************)
\* number of polls ever created
MaxPolls == 1
\* number of vote rows ever inserted
MaxVotes == 2
\* last instant of the clock
MaxTime == 2
\* number of discussion rows of the poll whose tree is assembled
MaxThreads == 3

(***************************************************************************)
(* Program constants                                                       *)
(***************************************************************************)
TitleMaxLen == 200
DescriptionMaxLen == 500
SchemaMinOptions == 2
SchemaMaxOptions == 10
OptionTextMaxLen == 500
TriggerMinOptions == 2
TriggerMaxOptions == 20
PollTitleMaxLen == 200

(***************************************************************************)
(* Strings as character sequences                                          *)
(***************************************************************************)
\* toLowerCase of one character
LowerChar(c) ==
    LET UpperCase == <<"A","B","C","D","E","F","G","H","I","J","K","L","M","N","O","P","Q","R","S","T","U","V","W","X","Y","Z">>
        LowerCase == <<"a","b","c","d","e","f","g","h","i","j","k","l","m","n","o","p","q","r","s","t","u","v","w","x","y","z">>
    IN
    IF \E i \in 1..Len(UpperCase) : UpperCase[i] = c
    THEN LowerCase[CHOOSE i \in 1..Len(UpperCase) : UpperCase[i] = c]
    ELSE c

\* String.prototype.toLowerCase
ToLowerCase(s) == [i \in 1..Len(s) |-> LowerChar(s[i])]

\* String.prototype.includes
Includes(s, k) ==
    \E i \in 0..(Len(s) - Len(k)) : \A j \in 1..Len(k) : s[i + j] = k[j]

(***************************************************************************)
(* Keyword lists of classifyError                                          *)
(***************************************************************************)
\* the keywords of classifyError, per category
Keywords ==
    [\* 'authentication required', 'invalid login credentials', 'jwt', 'unauthorized'
     authentication |->
        << <<"a","u","t","h","e","n","t","i","c","a","t","i","o","n"," ","r","e","q","u","i","r","e","d">>,
           <<"i","n","v","a","l","i","d"," ","l","o","g","i","n"," ","c","r","e","d","e","n","t","i","a","l","s">>,
           <<"j","w","t">>,
           <<"u","n","a","u","t","h","o","r","i","z","e","d">> >>,
     \* 'permission denied', 'forbidden', 'access denied'
     authorization |->
        << <<"p","e","r","m","i","s","s","i","o","n"," ","d","e","n","i","e","d">>,
           <<"f","o","r","b","i","d","d","e","n">>,
           <<"a","c","c","e","s","s"," ","d","e","n","i","e","d">> >>,
     \* 'validation', 'invalid', 'required', 'must be'
     validation |->
        << <<"v","a","l","i","d","a","t","i","o","n">>,
           <<"i","n","v","a","l","i","d">>,
           <<"r","e","q","u","i","r","e","d">>,
           <<"m","u","s","t"," ","b","e">> >>,
     \* 'network', 'connection', 'timeout', 'fetch'
     network |->
        << <<"n","e","t","w","o","r","k">>,
           <<"c","o","n","n","e","c","t","i","o","n">>,
           <<"t","i","m","e","o","u","t">>,
           <<"f","e","t","c","h">> >>,
     \* 'too many requests', 'rate limit'
     rateLimit |->
        << <<"t","o","o"," ","m","a","n","y"," ","r","e","q","u","e","s","t","s">>,
           <<"r","a","t","e"," ","l","i","m","i","t">> >>,
     \* 'not found', 'does not exist'
     notFound |->
        << <<"n","o","t"," ","f","o","u","n","d">>,
           <<"d","o","e","s"," ","n","o","t"," ","e","x","i","s","t">> >>,
     \* 'database', 'sql', 'constraint', 'duplicate'
     database |->
        << <<"d","a","t","a","b","a","s","e">>,
           <<"s","q","l">>,
           <<"c","o","n","s","t","r","a","i","n","t">>,
           <<"d","u","p","l","i","c","a","t","e">> >>]

(***************************************************************************)
(* Messages: thrown by the actions and services, raised by the triggers,   *)
(* and reported by the database for violated constraints and policies      *)
(***************************************************************************)
\* the messages of the errors the actions and their validators throw
ActionMessages ==
    [authenticationRequired |->
        <<"A","u","t","h","e","n","t","i","c","a","t","i","o","n"," ","r","e","q","u","i","r","e","d">>,
     accessDenied |->
        <<"P","o","l","l"," ","n","o","t"," ","f","o","u","n","d"," ","o","r"," ","a","c","c","e","s","s"," ","d","e","n","i","e","d">>,
     titleRequired |->
        <<"T","i","t","l","e"," ","i","s"," ","r","e","q","u","i","r","e","d">>,
     idsRequired |->
        <<"P","o","l","l"," ","I","D"," ","a","n","d"," ","O","p","t","i","o","n"," ","I","D"," ","a","r","e"," ","r","e","q","u","i","r","e","d">>]
\* the messages of createPollSchema
ZodMessages ==
    [\* Title must be less than 200 characters
     titleTooLong |->
        <<"T","i","t","l","e"," ","m","u","s","t"," ","b","e"," ","l","e","s","s"," ","t","h","a","n"," ","2","0","0"," ","c","h","a","r","a","c","t","e","r","s">>,
     \* Description must be less than 500 characters
     descriptionTooLong |->
        <<"D","e","s","c","r","i","p","t","i","o","n"," ","m","u","s","t"," ","b","e"," ","l","e","s","s"," ","t","h","a","n"," ","5","0","0"," ","c","h","a","r","a","c","t","e","r","s">>,
     \* Option cannot be empty
     optionEmpty |->
        <<"O","p","t","i","o","n"," ","c","a","n","n","o","t"," ","b","e"," ","e","m","p","t","y">>,
     \* At least 2 options are required
     tooFewOptions |->
        <<"A","t"," ","l","e","a","s","t"," ","2"," ","o","p","t","i","o","n","s"," ","a","r","e"," ","r","e","q","u","i","r","e","d">>,
     \* Maximum 10 options allowed
     tooManyOptions |->
        <<"M","a","x","i","m","u","m"," ","1","0"," ","o","p","t","i","o","n","s"," ","a","l","l","o","w","e","d">>]
\* the messages the triggers of poll_options and votes raise
RaiseException ==
    [\* You have already voted in this poll
     alreadyVoted |->
        <<"Y","o","u"," ","h","a","v","e"," ","a","l","r","e","a","d","y"," ","v","o","t","e","d"," ","i","n"," ","t","h","i","s"," ","p","o","l","l">>,
     \* This poll is no longer active
     notActive |->
        <<"T","h","i","s"," ","p","o","l","l"," ","i","s"," ","n","o"," ","l","o","n","g","e","r"," ","a","c","t","i","v","e">>,
     \* This poll has expired
     expired |->
        <<"T","h","i","s"," ","p","o","l","l"," ","h","a","s"," ","e","x","p","i","r","e","d">>,
     \* Option does not belong to the specified poll
     optionNotInPoll |->
        <<"O","p","t","i","o","n"," ","d","o","e","s"," ","n","o","t"," ","b","e","l","o","n","g"," ","t","o"," ","t","h","e"," ","s","p","e","c","i","f","i","e","d"," ","p","o","l","l">>,
     \* A poll must have at least 2 options
     minOptions |->
        <<"A"," ","p","o","l","l"," ","m","u","s","t"," ","h","a","v","e"," ","a","t"," ","l","e","a","s","t"," ","2"," ","o","p","t","i","o","n","s">>,
     \* A poll cannot have more than 20 options
     maxOptions |->
        <<"A"," ","p","o","l","l"," ","c","a","n","n","o","t"," ","h","a","v","e"," ","m","o","r","e"," ","t","h","a","n"," ","2","0"," ","o","p","t","i","o","n","s">>]
\* the prefixes the services put before the message of a database error
FailedTo ==
    [ \* Failed to create poll: 
      createPoll |->
        <<"F","a","i","l","e","d"," ","t","o"," ","c","r","e","a","t","e"," ","p","o","l","l",":"," ">>,
      \* Failed to create poll options: 
      createPollOptions |->
        <<"F","a","i","l","e","d"," ","t","o"," ","c","r","e","a","t","e"," ","p","o","l","l"," ","o","p","t","i","o","n","s",":"," ">>,
      \* Failed to create vote: 
      createVote |->
        <<"F","a","i","l","e","d"," ","t","o"," ","c","r","e","a","t","e"," ","v","o","t","e",":"," ">>,
      \* Failed to update poll: 
      updatePoll |->
        <<"F","a","i","l","e","d"," ","t","o"," ","u","p","d","a","t","e"," ","p","o","l","l",":"," ">>,
      \* Failed to delete poll: 
      deletePoll |->
        <<"F","a","i","l","e","d"," ","t","o"," ","d","e","l","e","t","e"," ","p","o","l","l",":"," ">>,
      \* Failed to delete poll option: 
      deletePollOption |->
        <<"F","a","i","l","e","d"," ","t","o"," ","d","e","l","e","t","e"," ","p","o","l","l"," ","o","p","t","i","o","n",":"," ">>,
      \* Failed to delete poll options: 
      deletePollOptions |->
        <<"F","a","i","l","e","d"," ","t","o"," ","d","e","l","e","t","e"," ","p","o","l","l"," ","o","p","t","i","o","n","s",":"," ">>,
      \* Failed to fetch user polls: 
      fetchUserPolls |->
        <<"F","a","i","l","e","d"," ","t","o"," ","f","e","t","c","h"," ","u","s","e","r"," ","p","o","l","l","s",":"," ">> ]
\* the messages of the database for violated policies and constraints, and
\* of the API layer for .single() and for an unknown column
PostgresError ==
    [ \* new row violates row-level security policy for table "votes"
      rlsVotes |->
        <<"n","e","w"," ","r","o","w"," ","v","i","o","l","a","t","e","s"," ","r","o","w","-","l","e","v","e","l"," ","s","e","c","u","r","i","t","y"," ","p","o","l","i","c","y"," ","f","o","r"," ","t","a","b","l","e"," ","\"","v","o","t","e","s","\"">>,
      \* new row for relation "votes" violates check constraint "check_voter_identification"
      checkVoter |->
        <<"n","e","w"," ","r","o","w"," ","f","o","r"," ","r","e","l","a","t","i","o","n"," ","\"","v","o","t","e","s","\""," ","v","i","o","l","a","t","e","s"," ","c","h","e","c","k"," ","c","o","n","s","t","r","a","i","n","t"," ","\"","c","h","e","c","k","_","v","o","t","e","r","_","i","d","e","n","t","i","f","i","c","a","t","i","o","n","\"">>,
      \* new row for relation "polls" violates check constraint "check_expires_at_future"
      checkExpires |->
        <<"n","e","w"," ","r","o","w"," ","f","o","r"," ","r","e","l","a","t","i","o","n"," ","\"","p","o","l","l","s","\""," ","v","i","o","l","a","t","e","s"," ","c","h","e","c","k"," ","c","o","n","s","t","r","a","i","n","t"," ","\"","c","h","e","c","k","_","e","x","p","i","r","e","s","_","a","t","_","f","u","t","u","r","e","\"">>,
      \* new row for relation "polls" violates check constraint "polls_title_check"
      checkTitle |->
        <<"n","e","w"," ","r","o","w"," ","f","o","r"," ","r","e","l","a","t","i","o","n"," ","\"","p","o","l","l","s","\""," ","v","i","o","l","a","t","e","s"," ","c","h","e","c","k"," ","c","o","n","s","t","r","a","i","n","t"," ","\"","p","o","l","l","s","_","t","i","t","l","e","_","c","h","e","c","k","\"">>,
      \* new row for relation "poll_options" violates check constraint "poll_options_text_check"
      checkText |->
        <<"n","e","w"," ","r","o","w"," ","f","o","r"," ","r","e","l","a","t","i","o","n"," ","\"","p","o","l","l","_","o","p","t","i","o","n","s","\""," ","v","i","o","l","a","t","e","s"," ","c","h","e","c","k"," ","c","o","n","s","t","r","a","i","n","t"," ","\"","p","o","l","l","_","o","p","t","i","o","n","s","_","t","e","x","t","_","c","h","e","c","k","\"">>,
      \* JSON object requested, multiple (or no) rows returned
      noRows |->
        <<"J","S","O","N"," ","o","b","j","e","c","t"," ","r","e","q","u","e","s","t","e","d",","," ","m","u","l","t","i","p","l","e"," ","(","o","r"," ","n","o",")"," ","r","o","w","s"," ","r","e","t","u","r","n","e","d">>,
      \* column polls.created_by does not exist
      noColumn |->
        <<"c","o","l","u","m","n"," ","p","o","l","l","s",".","c","r","e","a","t","e","d","_","b","y"," ","d","o","e","s"," ","n","o","t"," ","e","x","i","s","t">>,
      \* new row for relation "polls" violates check constraint "polls_description_check"
      checkDescription |->
        <<"n","e","w"," ","r","o","w"," ","f","o","r"," ","r","e","l","a","t","i","o","n"," ","\"","p","o","l","l","s","\""," ","v","i","o","l","a","t","e","s"," ","c","h","e","c","k"," ","c","o","n","s","t","r","a","i","n","t"," ","\"","p","o","l","l","s","_","d","e","s","c","r","i","p","t","i","o","n","_","c","h","e","c","k","\"">>,
      \* new row for relation "poll_options" violates check constraint "check_valid_order_index"
      checkOrder |->
        <<"n","e","w"," ","r","o","w"," ","f","o","r"," ","r","e","l","a","t","i","o","n"," ","\"","p","o","l","l","_","o","p","t","i","o","n","s","\""," ","v","i","o","l","a","t","e","s"," ","c","h","e","c","k"," ","c","o","n","s","t","r","a","i","n","t"," ","\"","c","h","e","c","k","_","v","a","l","i","d","_","o","r","d","e","r","_","i","n","d","e","x","\"">>,
      \* duplicate key value violates unique constraint "idx_poll_options_unique_order"
      uniqueOrder |->
        <<"d","u","p","l","i","c","a","t","e"," ","k","e","y"," ","v","a","l","u","e"," ","v","i","o","l","a","t","e","s"," ","u","n","i","q","u","e"," ","c","o","n","s","t","r","a","i","n","t"," ","\"","i","d","x","_","p","o","l","l","_","o","p","t","i","o","n","s","_","u","n","i","q","u","e","_","o","r","d","e","r","\"">>,
      \* new row violates row-level security policy for table "polls"
      rlsPolls |->
        <<"n","e","w"," ","r","o","w"," ","v","i","o","l","a","t","e","s"," ","r","o","w","-","l","e","v","e","l"," ","s","e","c","u","r","i","t","y"," ","p","o","l","i","c","y"," ","f","o","r"," ","t","a","b","l","e"," ","\"","p","o","l","l","s","\"">>,
      \* new row violates row-level security policy for table "poll_options"
      rlsOptions |->
        <<"n","e","w"," ","r","o","w"," ","v","i","o","l","a","t","e","s"," ","r","o","w","-","l","e","v","e","l"," ","s","e","c","u","r","i","t","y"," ","p","o","l","i","c","y"," ","f","o","r"," ","t","a","b","l","e"," ","\"","p","o","l","l","_","o","p","t","i","o","n","s","\"">> ]
\* the messages of the errors the discussion actions throw
ThreadMessages ==
    [\* Comment content is required
     contentRequired |->
        <<"C","o","m","m","e","n","t"," ","c","o","n","t","e","n","t"," ","i","s"," ","r","e","q","u","i","r","e","d">>,
     \* Comment content must be 2000 characters or less
     contentTooLong |->
        <<"C","o","m","m","e","n","t"," ","c","o","n","t","e","n","t"," ","m","u","s","t"," ","b","e"," ","2","0","0","0"," ","c","h","a","r","a","c","t","e","r","s"," ","o","r"," ","l","e","s","s">>,
     \* Valid poll ID is required
     validPollId |->
        <<"V","a","l","i","d"," ","p","o","l","l"," ","I","D"," ","i","s"," ","r","e","q","u","i","r","e","d">>,
     \* Valid thread ID is required
     validThreadId |->
        <<"V","a","l","i","d"," ","t","h","r","e","a","d"," ","I","D"," ","i","s"," ","r","e","q","u","i","r","e","d">>,
     \* Parent comment not found
     parentNotFound |->
        <<"P","a","r","e","n","t"," ","c","o","m","m","e","n","t"," ","n","o","t"," ","f","o","u","n","d">>,
     \* Parent comment does not belong to this poll
     parentOtherPoll |->
        <<"P","a","r","e","n","t"," ","c","o","m","m","e","n","t"," ","d","o","e","s"," ","n","o","t"," ","b","e","l","o","n","g"," ","t","o"," ","t","h","i","s"," ","p","o","l","l">>,
     \* Poll not found
     pollNotFound |->
        <<"P","o","l","l"," ","n","o","t"," ","f","o","u","n","d">>,
     \* Failed to create comment
     createFailed |->
        <<"F","a","i","l","e","d"," ","t","o"," ","c","r","e","a","t","e"," ","c","o","m","m","e","n","t">>,
     \* Comment not found
     commentNotFound |->
        <<"C","o","m","m","e","n","t"," ","n","o","t"," ","f","o","u","n","d">>,
     \* You can only edit your own comments
     editOwn |->
        <<"Y","o","u"," ","c","a","n"," ","o","n","l","y"," ","e","d","i","t"," ","y","o","u","r"," ","o","w","n"," ","c","o","m","m","e","n","t","s">>,
     \* Failed to update comment
     updateFailed |->
        <<"F","a","i","l","e","d"," ","t","o"," ","u","p","d","a","t","e"," ","c","o","m","m","e","n","t">>]
\* An unknown error occurred
MsgUnknownError ==
    <<"A","n"," ","u","n","k","n","o","w","n"," ","e","r","r","o","r"," ","o","c","c","u","r","r","e","d">>
\* the messages the tests of classifyError use:
\*   Invalid login credentials
\*   Permission denied for action
\*   Field is required and must be an email
\*   Network timeout during fetch connection
\*   Too many requests - rate limit exceeded
\*   User not found in system
\*   SQL constraint violation
\*   Something mysterious
\*   plain string error
TestMessages ==
    << <<"I","n","v","a","l","i","d"," ","l","o","g","i","n"," ","c","r","e","d","e","n","t","i","a","l","s">>,
       <<"P","e","r","m","i","s","s","i","o","n"," ","d","e","n","i","e","d"," ","f","o","r"," ","a","c","t","i","o","n">>,
       <<"F","i","e","l","d"," ","i","s"," ","r","e","q","u","i","r","e","d"," ","a","n","d"," ","m","u","s","t"," ","b","e"," ","a","n"," ","e","m","a","i","l">>,
       <<"N","e","t","w","o","r","k"," ","t","i","m","e","o","u","t"," ","d","u","r","i","n","g"," ","f","e","t","c","h"," ","c","o","n","n","e","c","t","i","o","n">>,
       <<"T","o","o"," ","m","a","n","y"," ","r","e","q","u","e","s","t","s"," ","-"," ","r","a","t","e"," ","l","i","m","i","t"," ","e","x","c","e","e","d","e","d">>,
       <<"U","s","e","r"," ","n","o","t"," ","f","o","u","n","d"," ","i","n"," ","s","y","s","t","e","m">>,
       <<"S","Q","L"," ","c","o","n","s","t","r","a","i","n","t"," ","v","i","o","l","a","t","i","o","n">>,
       <<"S","o","m","e","t","h","i","n","g"," ","m","y","s","t","e","r","i","o","u","s">>,
       <<"p","l","a","i","n"," ","s","t","r","i","n","g"," ","e","r","r","o","r">> >>

(***************************************************************************)
(* Errors                                                                  *)
(***************************************************************************)
\* enum ErrorType
ErrorType ==
    [AUTHENTICATION |-> "AUTHENTICATION", AUTHORIZATION |-> "AUTHORIZATION",
     VALIDATION |-> "VALIDATION", NETWORK |-> "NETWORK", DATABASE |-> "DATABASE",
     NOT_FOUND |-> "NOT_FOUND", RATE_LIMIT |-> "RATE_LIMIT", UNKNOWN |-> "UNKNOWN"]

\* new AppError(message, type, statusCode)
AppError(message, type, statusCode) ==
    [isAppError |-> TRUE, kind |-> "Error", message |-> message, type |-> type,
     statusCode |-> statusCode]

\* new Error(message): carries no type and no status code
PlainError(message) ==
    [isAppError |-> FALSE, kind |-> "Error", message |-> message, type |-> "",
     statusCode |-> 0]

\* a thrown value that is no Error: a string, or any other value
ThrownString(s) ==
    [isAppError |-> FALSE, kind |-> "string", message |-> s, type |-> "", statusCode |-> 0]
ThrownObject ==
    [isAppError |-> FALSE, kind |-> "object", message |-> <<>>, type |-> "", statusCode |-> 0]


IncludesAny(message, keywords) ==
    \E i \in 1..Len(keywords) : Includes(message, keywords[i])

\* classifyError that tests the validation keywords before the others
classifyErrorValidationFirst(error) ==
    IF error.isAppError THEN error
    ELSE IF error.kind # "Error"
    THEN AppError(IF error.kind = "string" THEN error.message ELSE MsgUnknownError,
                  ErrorType.UNKNOWN, 500)
    ELSE LET message == ToLowerCase(error.message) IN
         IF IncludesAny(message, Keywords.validation)
         THEN AppError(error.message, ErrorType.VALIDATION, 400)
         ELSE IF IncludesAny(message, Keywords.authentication)
         THEN AppError(error.message, ErrorType.AUTHENTICATION, 401)
         ELSE IF IncludesAny(message, Keywords.authorization)
         THEN AppError(error.message, ErrorType.AUTHORIZATION, 403)
         ELSE IF IncludesAny(message, Keywords.network)
         THEN AppError(error.message, ErrorType.NETWORK, 503)
         ELSE IF IncludesAny(message, Keywords.rateLimit)
         THEN AppError(error.message, ErrorType.RATE_LIMIT, 429)
         ELSE IF IncludesAny(message, Keywords.notFound)
         THEN AppError(error.message, ErrorType.NOT_FOUND, 404)
         ELSE IF IncludesAny(message, Keywords.database)
         THEN AppError(error.message, ErrorType.DATABASE, 500)
         ELSE AppError(error.message, ErrorType.UNKNOWN, 500)

classifyError(error) ==
    IF error.isAppError THEN error
    ELSE IF error.kind # "Error"
    THEN AppError(IF error.kind = "string" THEN error.message ELSE MsgUnknownError,
                  ErrorType.UNKNOWN, 500)
    ELSE LET message == ToLowerCase(error.message) IN
         IF IncludesAny(message, Keywords.authentication)
         THEN AppError(error.message, ErrorType.AUTHENTICATION, 401)
         ELSE IF IncludesAny(message, Keywords.authorization)
         THEN AppError(error.message, ErrorType.AUTHORIZATION, 403)
         ELSE IF IncludesAny(message, Keywords.validation)
         THEN AppError(error.message, ErrorType.VALIDATION, 400)
         ELSE IF IncludesAny(message, Keywords.network)
         THEN AppError(error.message, ErrorType.NETWORK, 503)
         ELSE IF IncludesAny(message, Keywords.rateLimit)
         THEN AppError(error.message, ErrorType.RATE_LIMIT, 429)
         ELSE IF IncludesAny(message, Keywords.notFound)
         THEN AppError(error.message, ErrorType.NOT_FOUND, 404)
         ELSE IF IncludesAny(message, Keywords.database)
         THEN AppError(error.message, ErrorType.DATABASE, 500)
         ELSE AppError(error.message, ErrorType.UNKNOWN, 500)

\* the absence of an error
NoError ==
    [isAppError |-> FALSE, kind |-> "none", message |-> <<>>, type |-> "", statusCode |-> 0]

\* one issue of a ZodError, as it appears in the error's message (the JSON
\* text of the issue list): its code and its message
ZodIssue(tooBig, message) ==
    <<"\"","c","o","d","e","\"",":"," ","\"">>
    \o (IF tooBig THEN <<"t","o","o","_","b","i","g">>
        ELSE <<"t","o","o","_","s","m","a","l","l">>)
    \o <<"\"",","," ","\"","m","e","s","s","a","g","e","\"",":"," ","\"">> \o message
    \o <<"\"">>


(***************************************************************************)
(* Callers, texts and form inputs                                          *)
(***************************************************************************)
Users == {"A", "B"}
\* supabase.auth.getUser() found no user; also the SQL NULL of voter_id
NoUser == "null"
Callers == Users \cup {NoUser}

\* formData.get(key) of an absent field
NoValue == "<absent>"
\* an absent or unparsable date; also the SQL NULL of expires_at
NoDate == -1
\* an absent id field of the vote form
NoId == 0

\* length of a symbolic text
TextLen(t) ==
    CASE t = "" -> 0
      [] t = "Red" -> 3
      [] t = "Blue" -> 4
      [] t = "Poll" -> 4
      [] t = "About" -> 5
      [] t = "Title201" -> 201
      [] t = "Desc501" -> 501
      [] t = "Option501" -> 501

\* a list of n copies of the option text t
Repeat(t, n) == [i \in 1..n |-> t]

OptionLists ==
    { <<"Red">>, <<"Red", "Blue">>, <<"Blue", "Red">>, <<"Red", "">>,
      <<"Red", "Option501">>, Repeat("Red", SchemaMaxOptions + 1),
      Repeat("Red", TriggerMaxOptions + 1) }
ExpiryDates == {NoDate, 1}

\* the form payloads submitted to createPoll and updatePoll
PollForms ==
    [title : {"Poll"}, description : {NoValue}, options : {<<"Red", "Blue">>},
     allowMultiple : BOOLEAN, expiresAt : ExpiryDates, isActive : {NoValue}]
    \cup
    [title : {"Poll"}, description : {NoValue}, options : OptionLists,
     allowMultiple : {FALSE}, expiresAt : {NoDate}, isActive : {NoValue}]
    \cup
    [title : {NoValue, "", "Poll", "Title201"},
     description : {NoValue, "About", "Desc501"}, options : {<<"Red", "Blue">>},
     allowMultiple : {FALSE}, expiresAt : {NoDate}, isActive : {NoValue}]

\* the form of the edit page: the inputs title and description and the
\* switch isActive, which is part of the payload ('on') only when checked
EditPageForms ==
    [title : {"Poll"}, description : {""}, options : {<<>>},
     allowMultiple : {FALSE}, expiresAt : {NoDate}, isActive : {"on", NoValue}]

(***************************************************************************)
(* State: the four tables, the clock, id generators and the last call      *)
(***************************************************************************)
VARIABLES
    polls,          \* rows of the table polls
    options,        \* rows of the table poll_options
    votes,          \* rows of the table votes
    threads,        \* rows of the table discussion_threads
    now,            \* NOW()
    nextPollId,     \* gen_random_uuid() for polls
    nextOptionId,   \* gen_random_uuid() for poll_options
    nextVoteId,     \* gen_random_uuid() for votes
    pending,        \* the call that was just answered, until its response is delivered
    fetchedThreads, \* rows returned by the last query of getDiscussionThreads
    tree,           \* result of the last getDiscussionThreads
    outcome,        \* what a function wrapped by withErrorHandling returned or threw
    auth,           \* the AuthProvider in the browser: its React state and its effect
    inflight        \* INSERTs into votes whose triggers have run, committed or not

vars == <<polls, options, votes, threads, now, nextPollId, nextOptionId,
          nextVoteId, pending, fetchedThreads, tree, outcome, auth, inflight>>

Db == [polls |-> polls, options |-> options, votes |-> votes]

PollById(db, id) == {p \in db.polls : p.id = id}
OptionsOf(db, pollId) == {o \in db.options : o.poll_id = pollId}
VotesOf(db, pollId) == {v \in db.votes : v.poll_id = pollId}

(***************************************************************************)
(* Row-level security of polls                                             *)
(***************************************************************************)
\* "Anyone can view active polls" / "Users can view their own polls"
PollSelectPolicy(p, uid) == p.is_active \/ (uid # NoUser /\ uid = p.creator_id)
\* "Authenticated users can create polls"
PollInsertPolicy(p, uid) == uid # NoUser /\ uid = p.creator_id
\* "Users can update their own polls"
PollUpdatePolicy(p, uid) == uid # NoUser /\ uid = p.creator_id
\* "Users can delete their own polls"
PollDeletePolicy(p, uid) == uid # NoUser /\ uid = p.creator_id
\* the poll_options policies for INSERT and DELETE: the poll is the caller's
OptionWritePolicy(db, o, uid) ==
    \E p \in db.polls : p.id = o.poll_id /\ uid # NoUser /\ p.creator_id = uid
\* "Anyone can vote on active polls"
VoteInsertPolicy(db, v, t) ==
    \E p \in db.polls : /\ p.id = v.poll_id
                        /\ p.is_active
                        /\ (p.expires_at = NoDate \/ p.expires_at > t)
\* votes policies for SELECT
VoteSelectPolicy(db, v, uid) ==
    \/ \E p \in db.polls : p.id = v.poll_id /\ p.is_active
    \/ \E p \in db.polls : p.id = v.poll_id /\ uid # NoUser /\ p.creator_id = uid
    \/ (uid # NoUser /\ uid = v.voter_id)
\* poll_options policies for SELECT
OptionSelectPolicy(db, o, uid) ==
    \/ \E p \in db.polls : p.id = o.poll_id /\ p.is_active
    \/ \E p \in db.polls : p.id = o.poll_id /\ uid # NoUser /\ p.creator_id = uid

(***************************************************************************)
(* Statements against the store.  A statement yields the new tables and    *)
(* the message of the database error, <<>> when it succeeded; a failed     *)
(* statement changes nothing.                                              *)
(***************************************************************************)
Ok(db) == [db |-> db, error |-> <<>>]
Rejected(db, message) == [db |-> db, error |-> message]

DbDescriptionMaxLen == 1000
OrderIndexLimit == 100

\* CHECK constraints of polls
PollCheckError(p) ==
    IF ~(TextLen(p.title) > 0 /\ TextLen(p.title) <= PollTitleMaxLen)
    THEN PostgresError.checkTitle
    ELSE IF ~(p.description = NoValue \/ TextLen(p.description) <= DbDescriptionMaxLen)
    THEN PostgresError.checkDescription
    ELSE IF ~(p.expires_at = NoDate \/ p.expires_at > p.created_at)
    THEN PostgresError.checkExpires
    ELSE <<>>

\* INSERT INTO polls ... RETURNING
InsertPoll(db, p, uid) ==
    IF ~PollInsertPolicy(p, uid) THEN Rejected(db, PostgresError.rlsPolls)
    ELSE IF PollCheckError(p) # <<>> THEN Rejected(db, PollCheckError(p))
    ELSE Ok([db EXCEPT !.polls = @ \cup {p}])

\* UPDATE polls SET <the fields of pollData that are defined> WHERE id = id
\* RETURNING, followed by .single()
UpdatePollRow(db, id, pollData, uid) ==
    LET target == {p \in db.polls : p.id = id /\ PollUpdatePolicy(p, uid)} IN
    IF target = {} THEN Rejected(db, PostgresError.noRows)
    ELSE LET old == CHOOSE p \in target : TRUE
             new == [old EXCEPT
                 !.title = pollData.title,
                 !.description = IF pollData.description = NoValue THEN @
                                 ELSE pollData.description,
                 !.expires_at = IF pollData.expires_at = NoDate THEN @
                                ELSE pollData.expires_at,
                 !.allow_multiple_votes = pollData.allow_multiple_votes] IN
         IF ~PollUpdatePolicy(new, uid) THEN Rejected(db, PostgresError.rlsPolls)
         ELSE IF PollCheckError(new) # <<>> THEN Rejected(db, PollCheckError(new))
         ELSE Ok([db EXCEPT !.polls = (@ \ {old}) \cup {new}])

\* validate_poll_options_count as BEFORE DELETE row trigger, for a statement
\* that deletes m of the n options of a poll: the k-th deleted row sees the
\* n - k + 1 rows still there, and the NEW record is null
DeleteTriggerRaises(n, m) ==
    \E k \in 1..m : (n - k + 1) < TriggerMinOptions

\* validate_poll_options_count as AFTER INSERT row trigger: every row sees
\* the n rows the poll has once the statement has inserted all its rows
InsertTriggerRaises(n) == n > TriggerMaxOptions

\* CHECK constraints and unique index of poll_options, for one new row
OptionCheckError(db, o) ==
    IF ~(TextLen(o.text) > 0 /\ TextLen(o.text) <= OptionTextMaxLen)
    THEN PostgresError.checkText
    ELSE IF ~(o.order_index >= 0 /\ o.order_index < OrderIndexLimit)
    THEN PostgresError.checkOrder
    ELSE IF \E e \in db.options : e.poll_id = o.poll_id /\ e.order_index = o.order_index
    THEN PostgresError.uniqueOrder
    ELSE <<>>

\* INSERT INTO poll_options of the rows of the sequence rows, in one statement
InsertOptions(db, rows, uid) ==
    LET Bad(i) == ~OptionWritePolicy(db, rows[i], uid) \/ OptionCheckError(db, rows[i]) # <<>>
        new == {rows[i] : i \in 1..Len(rows)}
        after == [db EXCEPT !.options = @ \cup new] IN
    IF \E i \in 1..Len(rows) : Bad(i)
    THEN LET i == CHOOSE j \in 1..Len(rows) : Bad(j) /\ \A k \in 1..(j - 1) : ~Bad(k) IN
         IF ~OptionWritePolicy(db, rows[i], uid) THEN Rejected(db, PostgresError.rlsOptions)
         ELSE Rejected(db, OptionCheckError(db, rows[i]))
    ELSE IF \E i \in 1..Len(rows) : InsertTriggerRaises(Cardinality(OptionsOf(after, rows[i].poll_id)))
    THEN Rejected(db, RaiseException.maxOptions)
    ELSE Ok(after)

\* options removed without the votes cast for them
WithoutOptionsOnly(db, gone) == [db EXCEPT !.options = @ \ gone]

\* rows removed with a set of options: votes.option_id ON DELETE CASCADE
WithoutOptions(db, gone) ==
    [db EXCEPT !.options = @ \ gone,
               !.votes = {v \in @ : ~\E o \in gone : o.id = v.option_id}]

\* DELETE FROM poll_options WHERE <the rows of target>, all of one poll
DeleteOptions(db, target) ==
    IF target = {} THEN Ok(db)
    ELSE LET pollId == (CHOOSE o \in target : TRUE).poll_id IN
         IF DeleteTriggerRaises(Cardinality(OptionsOf(db, pollId)), Cardinality(target))
         THEN Rejected(db, RaiseException.minOptions)
         ELSE Ok(WithoutOptions(db, target))

\* DELETE FROM polls WHERE id = id; poll_options, votes and discussion
\* threads go with the poll (ON DELETE CASCADE), the cascaded delete of the
\* options firing validate_poll_options_on_delete
DeletePollRow(db, id, uid) ==
    LET target == {p \in db.polls : p.id = id /\ PollDeletePolicy(p, uid)} IN
    IF target = {} THEN Ok(db)
    ELSE LET cascade == DeleteOptions(db, OptionsOf(db, id)) IN
         IF cascade.error # <<>> THEN Rejected(db, cascade.error)
         ELSE Ok([cascade.db EXCEPT !.polls = @ \ target,
                                    !.votes = {v \in @ : v.poll_id # id}])

\* prevent_duplicate_votes that looks at the voter_ip only
PreventDuplicateVotesByIp(db, v) == <<>>

\* prevent_duplicate_votes
PreventDuplicateVotes(db, v) ==
    IF \E p \in db.polls : p.id = v.poll_id /\ ~p.allow_multiple_votes
    THEN IF v.voter_id # NoUser
         THEN IF Cardinality({e \in db.votes : e.poll_id = v.poll_id /\ e.voter_id = v.voter_id}) > 0
              THEN RaiseException.alreadyVoted ELSE <<>>
         \* voter_ip = NULL matches no row
         ELSE <<>>
    ELSE <<>>

\* validate_poll_active without the test of expires_at
ValidatePollIsActive(db, v, t) ==
    IF \E p \in db.polls : p.id = v.poll_id /\ ~p.is_active
    THEN RaiseException.notActive
    ELSE <<>>

\* validate_poll_active
ValidatePollActive(db, v, t) ==
    IF \E p \in db.polls : p.id = v.poll_id /\ ~p.is_active
    THEN RaiseException.notActive
    ELSE IF \E p \in db.polls : p.id = v.poll_id /\ p.expires_at # NoDate /\ p.expires_at < t
    THEN RaiseException.expired
    ELSE <<>>

\* validate_option_belongs_to_poll
ValidateOptionBelongsToPoll(db, v) ==
    IF ~\E o \in db.options : o.id = v.option_id /\ o.poll_id = v.poll_id
    THEN RaiseException.optionNotInPoll
    ELSE <<>>

\* the BEFORE INSERT row triggers of votes fire in the order of their names:
\* prevent_duplicate_votes_trigger, validate_poll_active_trigger,
\* validate_vote_option_poll; the first exception aborts the statement
VoteTriggersError(db, v, t) ==
    IF PreventDuplicateVotes(db, v) # <<>> THEN PreventDuplicateVotes(db, v)
    ELSE IF ValidatePollActive(db, v, t) # <<>> THEN ValidatePollActive(db, v, t)
    ELSE ValidateOptionBelongsToPoll(db, v)

\* INSERT INTO votes ... RETURNING: triggers, then the row-level policy,
\* then the CHECK constraint check_voter_identification
InsertVote(db, v, t) ==
    IF VoteTriggersError(db, v, t) # <<>> THEN Rejected(db, VoteTriggersError(db, v, t))
    ELSE IF ~VoteInsertPolicy(db, v, t) THEN Rejected(db, PostgresError.rlsVotes)
    ELSE IF ~(v.voter_id # NoUser \/ v.voter_ip # NoUser) THEN Rejected(db, PostgresError.checkVoter)
    ELSE Ok([db EXCEPT !.votes = @ \cup {v}])

(***************************************************************************)
(* Validation of the form payloads                                         *)
(***************************************************************************)
RECURSIVE Flatten(_)
Flatten(ss) == IF ss = <<>> THEN <<>> ELSE Head(ss) \o <<",">> \o Flatten(Tail(ss))

\* issues of createPollSchema / updatePollSchema, in the order zod reports them
SchemaIssues(raw) ==
    (IF TextLen(raw.title) < 1 THEN <<ZodIssue(FALSE, ActionMessages.titleRequired)>> ELSE <<>>)
    \o (IF TextLen(raw.title) > TitleMaxLen THEN <<ZodIssue(TRUE, ZodMessages.titleTooLong)>> ELSE <<>>)
    \o (IF raw.description # NoValue /\ TextLen(raw.description) > DescriptionMaxLen
        THEN <<ZodIssue(TRUE, ZodMessages.descriptionTooLong)>> ELSE <<>>)
    \o (IF Len(raw.options) < SchemaMinOptions THEN <<ZodIssue(FALSE, ZodMessages.tooFewOptions)>> ELSE <<>>)
    \o (IF Len(raw.options) > SchemaMaxOptions THEN <<ZodIssue(TRUE, ZodMessages.tooManyOptions)>> ELSE <<>>)
    \o (IF \E i \in 1..Len(raw.options) : TextLen(raw.options[i]) < 1
        THEN <<ZodIssue(FALSE, ZodMessages.optionEmpty)>> ELSE <<>>)

\* validateCreatePollData: the parsed data, or the thrown error
validateCreatePollData(formData) ==
    IF formData.title = NoValue \/ formData.title = ""
    THEN [error |-> PlainError(ActionMessages.titleRequired), data |-> formData]
    ELSE LET rawData == [formData EXCEPT
                            !.description = IF @ = "" THEN NoValue ELSE @] IN
         IF SchemaIssues(rawData) # <<>>
         THEN [error |-> PlainError(Flatten(SchemaIssues(rawData))), data |-> rawData]
         ELSE [error |-> NoError, data |-> rawData]

\* validateUpdatePollData: same extraction, validated against updatePollSchema
validateUpdatePollData(formData) == validateCreatePollData(formData)

\* validateSubmitVoteData
validateSubmitVoteData(pollId, optionId) ==
    IF pollId = NoId \/ optionId = NoId
    THEN PlainError(ActionMessages.idsRequired)
    ELSE NoError

(***************************************************************************)
(* Classification of thrown errors                                         *)
(***************************************************************************)
\* the messages of the plain errors the services and validators throw
ThrownMessages ==
    LET databaseMessages ==
            {RaiseException.alreadyVoted, RaiseException.notActive, RaiseException.expired, RaiseException.optionNotInPoll, RaiseException.minOptions,
             RaiseException.maxOptions} \cup {PostgresError[k] : k \in DOMAIN PostgresError} IN
    {FailedTo[k] \o message : k \in DOMAIN FailedTo, message \in databaseMessages}
    \cup {validateCreatePollData(formData).error.message : formData \in PollForms \cup EditPageForms}
    \cup {ActionMessages.idsRequired}

\* classifyError, tabulated over the thrown messages
Classification == [message \in ThrownMessages |-> classifyError(PlainError(message))]

\* handleServerError that classifies every error anew from its message
handleServerErrorByMessage(error) ==
    classifyError([error EXCEPT !.isAppError = FALSE])

\* handleServerError: classifies (the log record is not part of the state)
handleServerError(error) ==
    IF ~error.isAppError /\ error.kind = "Error" /\ error.message \in ThrownMessages
    THEN Classification[error.message]
    ELSE classifyError(error)

\* withErrorHandling: a thrown error is classified and rethrown as AppError
withErrorHandling(result) ==
    IF result.error = NoError THEN result
    ELSE [result EXCEPT !.error = handleServerError(result.error)]

(***************************************************************************)
(* Results of a call: the tables afterwards, the thrown error, the tables  *)
(* the call queried, the paths it revalidated and the path it redirected   *)
(* to                                                                      *)
(***************************************************************************)
NoPath == <<"", 0>>
DashboardPath == <<"/dashboard", 0>>
PollPath(shareToken) == <<"/polls", shareToken>>

Throw(db, error, touched) ==
    [db |-> db, error |-> error, touched |-> touched, revalidated |-> {},
     redirected |-> NoPath]

Return(db, touched, revalidated, redirected) ==
    [db |-> db, error |-> NoError, touched |-> touched,
     revalidated |-> revalidated, redirected |-> redirected]

\* getAuthenticatedUser that lets every caller pass
getAnyUser(caller) == NoError

\* getAuthenticatedUser: the error it throws for the caller, if any
getAuthenticatedUser(caller) ==
    IF caller = NoUser
    THEN AppError(ActionMessages.authenticationRequired, ErrorType.AUTHENTICATION, 401)
    ELSE NoError

\* crypto.randomUUID(): a token no other poll has
TokenBase == 100
randomUUID(pollId) == TokenBase + pollId

(***************************************************************************)
(* Services                                                                *)
(***************************************************************************)
\* PollService.findById: the poll the caller may see, as a set of 0 or 1 rows
findById(db, id, uid) == {p \in db.polls : p.id = id /\ PollSelectPolicy(p, uid)}

\* option rows numbered from the last text to the first
OptionsDataReversed(texts, pollId, firstId) ==
    [i \in 1..Len(texts) |->
        [id |-> firstId + i - 1, poll_id |-> pollId, text |-> texts[i],
         order_index |-> Len(texts) - i]]

\* the option rows createPoll builds from the validated option texts
OptionsData(texts, pollId, firstId) ==
    [i \in 1..Len(texts) |->
        [id |-> firstId + i - 1, poll_id |-> pollId, text |-> texts[i],
         order_index |-> i - 1]]

\* updatePoll without its ownership test
UpdateNeverDenied(existingPoll, caller) == FALSE

\* updatePoll: !existingPoll || existingPoll.creator_id !== user.id
UpdateDenied(existingPoll, caller) ==
    existingPoll = {} \/ \E p \in existingPoll : p.creator_id # caller

\* deletePoll without its ownership test
DeleteNeverDenied(existingPoll, caller) == FALSE

\* deletePoll: !existingPoll || existingPoll.creator_id !== user.id
DeleteDenied(existingPoll, caller) ==
    existingPoll = {} \/ \E p \in existingPoll : p.creator_id # caller

(***************************************************************************)
(* Server actions                                                          *)
(***************************************************************************)
\* createPoll that takes the poll row back when its options are refused
createPollRollback(db, caller, formData, t, pollId, firstOptionId) ==
    withErrorHandling(
    IF getAuthenticatedUser(caller) # NoError
    THEN Throw(db, getAuthenticatedUser(caller), {})
    ELSE LET validated == validateCreatePollData(formData) IN
    IF validated.error # NoError
    THEN Throw(db, validated.error, {})
    ELSE LET data == validated.data
             shareToken == randomUUID(pollId)
             poll == [id |-> pollId, title |-> data.title,
                      description |-> data.description, creator_id |-> caller,
                      share_token |-> shareToken, expires_at |-> data.expiresAt,
                      allow_multiple_votes |-> data.allowMultiple,
                      is_anonymous |-> FALSE, is_active |-> TRUE, created_at |-> t]
             created == InsertPoll(db, poll, caller) IN
    IF created.error # <<>>
    THEN Throw(db, PlainError(FailedTo.createPoll \o created.error), {"polls"})
    ELSE LET many == InsertOptions(created.db,
                        OptionsData(data.options, pollId, firstOptionId), caller) IN
    IF many.error # <<>>
    THEN Throw(db, PlainError(FailedTo.createPollOptions \o many.error), {"polls", "poll_options"})
    ELSE Return(many.db, {"polls", "poll_options"}, {DashboardPath}, PollPath(shareToken)))

\* createPoll: the poll row, then its option rows, each in a statement of
\* its own; a path is revalidated and the redirect made when both succeeded
createPoll(db, caller, formData, t, pollId, firstOptionId) ==
    withErrorHandling(
    IF getAuthenticatedUser(caller) # NoError
    THEN Throw(db, getAuthenticatedUser(caller), {})
    ELSE LET validated == validateCreatePollData(formData) IN
    IF validated.error # NoError
    THEN Throw(db, validated.error, {})
    ELSE LET data == validated.data
             shareToken == randomUUID(pollId)
             poll == [id |-> pollId, title |-> data.title,
                      description |-> data.description, creator_id |-> caller,
                      share_token |-> shareToken, expires_at |-> data.expiresAt,
                      allow_multiple_votes |-> data.allowMultiple,
                      is_anonymous |-> FALSE, is_active |-> TRUE, created_at |-> t]
             created == InsertPoll(db, poll, caller) IN
    IF created.error # <<>>
    THEN Throw(db, PlainError(FailedTo.createPoll \o created.error), {"polls"})
    ELSE LET many == InsertOptions(created.db,
                        OptionsData(data.options, pollId, firstOptionId), caller) IN
    IF many.error # <<>>
    THEN Throw(created.db, PlainError(FailedTo.createPollOptions \o many.error), {"polls", "poll_options"})
    ELSE Return(many.db, {"polls", "poll_options"}, {DashboardPath}, PollPath(shareToken)))

submitVote(db, caller, pollId, optionId, t, voteId) ==
    withErrorHandling(
    IF validateSubmitVoteData(pollId, optionId) # NoError
    THEN Throw(db, validateSubmitVoteData(pollId, optionId), {})
    ELSE LET vote == [id |-> voteId, poll_id |-> pollId, option_id |-> optionId,
                      voter_id |-> caller, voter_ip |-> NoUser]
             created == InsertVote(db, vote, t) IN
    IF created.error # <<>>
    THEN Throw(db, PlainError(FailedTo.createVote \o created.error), {"votes"})
    ELSE LET poll == findById(created.db, pollId, caller) IN
         Return(created.db, {"votes", "polls"},
                {PollPath(p.share_token) : p \in poll}, NoPath))

updatePoll(db, caller, pollId, formData) ==
    withErrorHandling(
    IF getAuthenticatedUser(caller) # NoError
    THEN Throw(db, getAuthenticatedUser(caller), {})
    ELSE LET validated == validateUpdatePollData(formData) IN
    IF validated.error # NoError
    THEN Throw(db, validated.error, {})
    ELSE LET existingPoll == findById(db, pollId, caller) IN
    IF UpdateDenied(existingPoll, caller)
    THEN Throw(db, AppError(ActionMessages.accessDenied, ErrorType.AUTHORIZATION, 403), {"polls"})
    ELSE LET data == validated.data
             \* a field that is undefined is left out of the UPDATE
             updated == UpdatePollRow(db, pollId,
                            [title |-> data.title, description |-> data.description,
                             expires_at |-> data.expiresAt,
                             allow_multiple_votes |-> data.allowMultiple], caller) IN
    IF updated.error # <<>>
    THEN Throw(db, PlainError(FailedTo.updatePoll \o updated.error), {"polls"})
    ELSE Return(updated.db, {"polls"},
                {DashboardPath} \cup {PollPath(p.share_token) : p \in existingPoll},
                NoPath))

deletePoll(db, caller, pollId) ==
    withErrorHandling(
    IF getAuthenticatedUser(caller) # NoError
    THEN Throw(db, getAuthenticatedUser(caller), {})
    ELSE LET existingPoll == findById(db, pollId, caller) IN
    IF DeleteDenied(existingPoll, caller)
    THEN Throw(db, AppError(ActionMessages.accessDenied, ErrorType.AUTHORIZATION, 403), {"polls"})
    ELSE LET deleted == DeletePollRow(db, pollId, caller) IN
    IF deleted.error # <<>>
    THEN Throw(db, PlainError(FailedTo.deletePoll \o deleted.error), {"polls"})
    ELSE Return(deleted.db, {"polls"}, {DashboardPath}, NoPath))

\* PollService.findByUserId filters on the column created_by, which the
\* polls table does not have
getUserPolls(db, caller) ==
    withErrorHandling(
    IF getAuthenticatedUser(caller) # NoError
    THEN Throw(db, getAuthenticatedUser(caller), {})
    ELSE Throw(db, PlainError(FailedTo.fetchUserPolls \o PostgresError.noColumn), {"polls"}))

StatusOk == 200

\* a response that answers every error with the status 500
JsonResponseServerError(r) ==
    [db |-> r.db, success |-> r.error = NoError,
     error |-> IF r.error = NoError THEN NoError ELSE handleServerError(r.error),
     status |-> IF r.error = NoError THEN StatusOk ELSE 500]

\* NextResponse.json of a route handler for the outcome r of its try block:
\* { success: true } with the default status, or the error mapped by
\* handleServerError and its statusCode
JsonResponse(r) ==
    [db |-> r.db, success |-> r.error = NoError,
     error |-> IF r.error = NoError THEN NoError ELSE handleServerError(r.error),
     status |-> IF r.error = NoError THEN StatusOk ELSE handleServerError(r.error).statusCode]

\* the route handler DELETE of /api/polls/[id]
DELETE(db, caller, pollId) ==
    JsonResponse(IF getAuthenticatedUser(caller) # NoError
                 THEN Throw(db, getAuthenticatedUser(caller), {})
                 ELSE deletePoll(db, caller, pollId))

\* the route handler PUT of /api/polls/[id]
PUT(db, caller, pollId, formData) ==
    JsonResponse(IF getAuthenticatedUser(caller) # NoError
                 THEN Throw(db, getAuthenticatedUser(caller), {})
                 ELSE updatePoll(db, caller, pollId, formData))

\* the route handler POST of /api/polls
POST(db, caller, formData, t, pollId, firstOptionId) ==
    JsonResponse(IF getAuthenticatedUser(caller) # NoError
                 THEN Throw(db, getAuthenticatedUser(caller), {})
                 ELSE IF validateCreatePollData(formData).error # NoError
                 THEN Throw(db, validateCreatePollData(formData).error, {})
                 ELSE createPoll(db, caller, formData, t, pollId, firstOptionId))

\* the route handler GET of /api/polls
GET(db, caller) ==
    JsonResponse(IF getAuthenticatedUser(caller) # NoError
                 THEN Throw(db, getAuthenticatedUser(caller), {})
                 ELSE getUserPolls(db, caller))

\* PollOptionService.delete, with the session of the caller
deleteOption(db, caller, optionId) ==
    LET target == {o \in db.options : o.id = optionId /\ OptionWritePolicy(db, o, caller)}
        deleted == DeleteOptions(db, target) IN
    IF deleted.error # <<>>
    THEN Throw(db, PlainError(FailedTo.deletePollOption \o deleted.error), {"poll_options"})
    ELSE Return(deleted.db, {"poll_options"}, {}, NoPath)

\* PollOptionService.deleteByPollId
deleteByPollId(db, caller, pollId) ==
    LET target == {o \in db.options : o.poll_id = pollId /\ OptionWritePolicy(db, o, caller)}
        deleted == DeleteOptions(db, target) IN
    IF deleted.error # <<>>
    THEN Throw(db, PlainError(FailedTo.deletePollOptions \o deleted.error), {"poll_options"})
    ELSE Return(deleted.db, {"poll_options"}, {}, NoPath)

\* PollOptionService.updateMany: delete the options of the poll, then insert
\* the supplied ones
updateMany(db, caller, pollId, texts, firstOptionId) ==
    LET deleted == deleteByPollId(db, caller, pollId) IN
    IF deleted.error # NoError THEN deleted
    ELSE LET many == InsertOptions(deleted.db,
                        OptionsData(texts, pollId, firstOptionId), caller) IN
    IF many.error # <<>>
    THEN Throw(deleted.db, PlainError(FailedTo.createPollOptions \o many.error), {"poll_options"})
    ELSE Return(many.db, {"poll_options"}, {}, NoPath)

(***************************************************************************)
(* Reads                                                                   *)
(***************************************************************************)
\* PollService.findByShareToken: the active poll with that token and its
\* embedded poll_options rows (id, text, order_index); the embedded rows
\* come in no particular order
findByShareToken(db, shareToken, uid) ==
    { [poll |-> p,
       poll_options |-> { [id |-> o.id, text |-> o.text, order_index |-> o.order_index] :
                            o \in {e \in OptionsOf(db, p.id) : OptionSelectPolicy(db, e, uid)} }] :
      p \in {q \in db.polls : q.share_token = shareToken /\ q.is_active
                               /\ PollSelectPolicy(q, uid)} }

\* .order('order_index'): the rows of a set of options as a sequence
RECURSIVE OrderByIndex(_)
OrderByIndex(rows) ==
    IF rows = {} THEN <<>>
    ELSE LET first == CHOOSE o \in rows : \A e \in rows : o.order_index <= e.order_index
         IN <<first>> \o OrderByIndex(rows \ {first})

RECURSIVE SumCounts(_)
SumCounts(rows) ==
    IF rows = <<>> THEN 0 ELSE Head(rows).vote_count + SumCounts(Tail(rows))

\* PollPage: what the poll page renders for the share token
PollPage(db, shareToken, uid, t) ==
    LET found == {p \in db.polls : p.share_token = shareToken /\ PollSelectPolicy(p, uid)} IN
    IF found = {} THEN [notFound |-> TRUE, canVote |-> FALSE, isExpired |-> FALSE,
                        optionsWithCounts |-> <<>>, totalVotes |-> 0]
    ELSE LET poll == CHOOSE p \in found : TRUE
             opts == OrderByIndex({o \in OptionsOf(db, poll.id) : OptionSelectPolicy(db, o, uid)})
             voteCounts == {v \in db.votes : /\ \E i \in 1..Len(opts) : opts[i].id = v.option_id
                                             /\ VoteSelectPolicy(db, v, uid)}
             voteCountMap(id) == Cardinality({v \in voteCounts : v.option_id = id})
             optionsWithCounts == [i \in 1..Len(opts) |->
                 [id |-> opts[i].id, text |-> opts[i].text,
                  order_index |-> opts[i].order_index,
                  vote_count |-> voteCountMap(opts[i].id)]]
             isExpired == IF poll.expires_at # NoDate THEN poll.expires_at < t ELSE FALSE
         IN [notFound |-> FALSE, canVote |-> poll.is_active /\ ~isExpired,
             isExpired |-> isExpired, optionsWithCounts |-> optionsWithCounts,
             totalVotes |-> SumCounts(optionsWithCounts)]

\* the rows of a query in the order the database returns them (some order)
RECURSIVE Rows(_)
Rows(set) ==
    IF set = {} THEN <<>>
    ELSE LET first == CHOOSE r \in set : TRUE IN <<first>> \o Rows(set \ {first})

\* a reduce that notes which options have votes, not how many
RECURSIVE ReducePresence(_, _)
ReducePresence(rows, acc) ==
    IF rows = <<>> THEN acc
    ELSE ReducePresence(Tail(rows),
             [id \in DOMAIN acc \cup {Head(rows).option_id} |-> 1])

\* votes.reduce((acc, vote) => { acc[vote.option_id] = (acc[vote.option_id] || 0) + 1 }, {})
RECURSIVE Reduce(_, _)
Reduce(rows, acc) ==
    IF rows = <<>> THEN acc
    ELSE LET id == Head(rows).option_id IN
         Reduce(Tail(rows),
             [k \in DOMAIN acc \cup {id} |->
                 IF k = id THEN (IF id \in DOMAIN acc THEN acc[id] ELSE 0) + 1
                 ELSE acc[k]])

\* VoteService.getVoteCountsByOption: option_id of the votes of the poll the
\* caller may see, reduced to a map from option id to count
getVoteCountsByOption(db, pollId, uid) ==
    Reduce(Rows({v \in db.votes : v.poll_id = pollId /\ VoteSelectPolicy(db, v, uid)}),
           <<>>)

\* VoteService.getTotalVotes: the exact count of the votes of the poll the
\* caller may see
getTotalVotes(db, pollId, uid) ==
    Cardinality({v \in db.votes : v.poll_id = pollId /\ VoteSelectPolicy(db, v, uid)})

\* PollService.findWithResults: the poll with that token, its options with
\* vote_count, and total_votes; no rows (null) when there is no such poll
findWithResults(db, shareToken, uid) ==
    { LET voteCountMap == getVoteCountsByOption(db, poll.id, uid)
          counts == Rows({[id |-> k, vote_count |-> voteCountMap[k]] : k \in DOMAIN voteCountMap})
      IN [poll |-> poll,
          poll_options |->
             { [id |-> o.id, text |-> o.text, order_index |-> o.order_index,
                vote_count |-> IF o.id \in DOMAIN voteCountMap THEN voteCountMap[o.id] ELSE 0] :
               o \in {e \in OptionsOf(db, poll.id) : OptionSelectPolicy(db, e, uid)} },
          total_votes |-> SumCounts(counts)] :
      poll \in {q \in db.polls : q.share_token = shareToken /\ PollSelectPolicy(q, uid)} }

(***************************************************************************)
(* Discussion threads                                                      *)
(***************************************************************************)
\* parent_id of a top-level thread (SQL NULL)
NoThread == 0
ThreadPolls == {1, 2}

\* a view without the WHERE clause
ThreadViewWithDeleted(rows, pollId) == {r \in rows : r.poll_id = pollId}

\* the rows the view discussion_threads_with_users has for a poll
ThreadView(rows, pollId) == {r \in rows : r.poll_id = pollId /\ ~r.is_deleted}

\* .order('created_at', ascending): the sequences the query may return
OrderedByCreatedAt(rows) ==
    { s \in [1..Cardinality(rows) -> rows] :
        /\ \A i, j \in DOMAIN s : i # j => s[i] # s[j]
        /\ \A i, j \in DOMAIN s : i < j => s[i].created_at <= s[j].created_at }

\* a first pass that starts every node with a reply counted
FirstPassCounted(fetched) ==
    [id \in {fetched[i].id : i \in DOMAIN fetched} |-> [replies |-> <<>>, replyCount |-> 1]]

\* first pass of getDiscussionThreads: every fetched row gets a node with no
\* replies
FirstPass(fetched) ==
    [id \in {fetched[i].id : i \in DOMAIN fetched} |-> [replies |-> <<>>, replyCount |-> 0]]

\* second pass, from the i-th fetched row on: a reply is appended to the
\* node of its parent when the map has it, a row without parent is appended
\* to the top-level list
RECURSIVE SecondPass(_, _, _, _)
SecondPass(fetched, i, threadMap, topLevelThreads) ==
    IF i > Len(fetched)
    THEN [threadMap |-> threadMap, topLevelThreads |-> topLevelThreads]
    ELSE LET thread == fetched[i] IN
         IF thread.parent_id # NoThread
         THEN IF thread.parent_id \in DOMAIN threadMap
              THEN SecondPass(fetched, i + 1,
                       [threadMap EXCEPT ![thread.parent_id] =
                           [replies |-> Append(@.replies, thread.id),
                            replyCount |-> @.replyCount + 1]],
                       topLevelThreads)
              ELSE SecondPass(fetched, i + 1, threadMap, topLevelThreads)
         ELSE SecondPass(fetched, i + 1, threadMap, Append(topLevelThreads, thread.id))

\* a result that lists every fetched row at the top level
getDiscussionThreadsFlat(fetched) ==
    [threadMap |-> FirstPass(fetched),
     topLevelThreads |-> [i \in DOMAIN fetched |-> fetched[i].id]]

\* getDiscussionThreads on the rows the query returned: the top-level list
\* and the nodes it refers to (a node is referred to by the id of its row)
getDiscussionThreads(fetched) == SecondPass(fetched, 1, FirstPass(fetched), <<>>)

(***************************************************************************)
(* AuthProvider: the React state user, session and isLoading, and the      *)
(* effect that asks for the session and subscribes to auth state changes   *)
(***************************************************************************)
\* session: null
NoSession == [user |-> NoUser, token |-> 0]
\* the sessions supabase.auth may hand out
Sessions == [user : Users, token : {1, 2}]

\* the provider right after it mounted: useState's initial values, then the
\* effect has run: mounted = true, getSession() is called and awaits its
\* result, and the handler is subscribed
MountedProvider ==
    [user |-> NoUser, session |-> NoSession, isLoading |-> TRUE, mounted |-> TRUE,
     getSession |-> "pending", subscribed |-> TRUE, unsubscribeCalls |-> 0,
     refreshCalls |-> 0]

\* the continuation of getSession that does not look at mounted
getSessionUnguarded(provider, result) ==
    IF result.error
    THEN [provider EXCEPT !.getSession = "error", !.isLoading = FALSE]
    ELSE [provider EXCEPT !.getSession = "session", !.session = result.session,
                          !.user = result.session.user, !.isLoading = FALSE]

\* the continuation of getSession after the await: nothing when the effect
\* was cleaned up; else the session and user are set unless there is an
\* error, and isLoading is set to false
getSession(provider, result) ==
    IF ~provider.mounted THEN [provider EXCEPT !.getSession = "dropped"]
    ELSE IF result.error
    THEN [provider EXCEPT !.getSession = "error", !.isLoading = FALSE]
    ELSE [provider EXCEPT !.getSession = "session", !.session = result.session,
                          !.user = result.session.user, !.isLoading = FALSE]

\* handleAuthStateChange(_event, session)
handleAuthStateChange(provider, session) ==
    [provider EXCEPT !.session = session, !.user = session.user,
                     !.refreshCalls = @ + 1]

\* the cleanup of the effect
cleanup(provider) ==
    [provider EXCEPT !.mounted = FALSE, !.subscribed = FALSE,
                     !.unsubscribeCalls = @ + 1]

(***************************************************************************)
(* Writing to the discussion of a poll                                     *)
(***************************************************************************)
ContentMaxLen == 2000

\* validatePollId
validatePollId(pollId) ==
    IF pollId = NoId THEN AppError(ThreadMessages.validPollId, ErrorType.VALIDATION, 400) ELSE NoError

\* String.prototype.trim
RECURSIVE Trim(_)
Trim(s) ==
    IF s = <<>> THEN s
    ELSE IF Head(s) = " " THEN Trim(Tail(s))
    ELSE IF s[Len(s)] = " " THEN Trim(SubSeq(s, 1, Len(s) - 1))
    ELSE s

\* validateDiscussionThreadContent: the trimmed content, or the thrown error
validateDiscussionThreadContent(content) ==
    LET trimmedContent == Trim(content) IN
    IF trimmedContent = <<>>
    THEN [error |-> AppError(ThreadMessages.contentRequired, ErrorType.VALIDATION, 400),
          content |-> trimmedContent]
    ELSE IF Len(trimmedContent) > ContentMaxLen
    THEN [error |-> AppError(ThreadMessages.contentTooLong, ErrorType.VALIDATION, 400),
          content |-> trimmedContent]
    ELSE [error |-> NoError, content |-> trimmedContent]

\* validateThreadId
validateThreadId(threadId) ==
    IF threadId = NoThread
    THEN AppError(ThreadMessages.validThreadId, ErrorType.VALIDATION, 400)
    ELSE NoError

\* INSERT INTO discussion_threads ... RETURNING: the policy for INSERT and,
\* as the statement returns the row, the policy for SELECT on the new row;
\* then the CHECK constraints and the foreign keys. The error is the
\* SQLSTATE, "" when there is none
InsertThreadRow(rows, db, r, uid) ==
    IF ~(uid # NoUser /\ r.user_id = uid /\ ~r.is_deleted) \/ r.is_deleted
    THEN [threads |-> rows, error |-> "42501"]
    ELSE IF ~(Len(r.content) > 0 /\ Len(r.content) <= ContentMaxLen /\ Len(Trim(r.content)) > 0)
            \/ r.id = r.parent_id
    THEN [threads |-> rows, error |-> "23514"]
    ELSE IF \/ ~\E p \in db.polls : p.id = r.poll_id
            \/ r.parent_id # NoThread /\ ~\E q \in rows : q.id = r.parent_id
    THEN [threads |-> rows, error |-> "23503"]
    ELSE [threads |-> rows \cup {r}, error |-> ""]

\* an UPDATE whose new row the policy for SELECT is not applied to
UpdateThreadRowUnread(rows, id, updateData, uid) ==
    LET target == {r \in rows : r.id = id /\ uid # NoUser /\ r.user_id = uid /\ ~r.is_deleted} IN
    IF target = {} THEN [threads |-> rows, error |-> "PGRST116"]
    ELSE LET old == CHOOSE r \in target : TRUE
             new == [old EXCEPT
                 !.content = IF updateData.content = <<>> THEN @ ELSE updateData.content[1],
                 !.is_deleted = IF updateData.is_deleted = <<>> THEN @
                                ELSE updateData.is_deleted[1]] IN
         [threads |-> (rows \ {old}) \cup {new}, error |-> ""]

\* UPDATE discussion_threads SET <the defined fields> WHERE id = id (a field
\* of updateData is <<>> when undefined, else <<value>>)
\* RETURNING, followed by .single(). The rows the statement sees are those
\* the policies for UPDATE (USING user_id = auth.uid()) and for SELECT
\* (USING is_deleted = FALSE) let through; the new row has to pass the
\* WITH CHECK of one of the two policies for UPDATE and, as the statement
\* reads the table, the policy for SELECT
UpdateThreadRow(rows, id, updateData, uid) ==
    LET target == {r \in rows : r.id = id /\ uid # NoUser /\ r.user_id = uid /\ ~r.is_deleted} IN
    IF target = {} THEN [threads |-> rows, error |-> "PGRST116"]
    ELSE LET old == CHOOSE r \in target : TRUE
             new == [old EXCEPT
                 !.content = IF updateData.content = <<>> THEN @ ELSE updateData.content[1],
                 !.is_deleted = IF updateData.is_deleted = <<>> THEN @
                                ELSE updateData.is_deleted[1]]
             updateCheck == \/ new.user_id = uid /\ ~new.is_deleted
                            \/ new.user_id = uid /\ new.is_deleted
             selectCheck == ~new.is_deleted IN
         IF ~updateCheck \/ ~selectCheck THEN [threads |-> rows, error |-> "42501"]
         ELSE IF ~(Len(new.content) > 0 /\ Len(new.content) <= ContentMaxLen
                   /\ Len(Trim(new.content)) > 0)
         THEN [threads |-> rows, error |-> "23514"]
         ELSE [threads |-> (rows \ {old}) \cup {new}, error |-> ""]

\* what a discussion action resolves to: the table afterwards, the thrown
\* error, the paths revalidated and the id of the row returned
ThreadResult(rows, error, revalidated, id) ==
    [threads |-> rows, error |-> error, revalidated |-> revalidated, thread |-> id]

\* createDiscussionThread that does not look the parent up
CreateChecksAnyParent(rows, db, caller, data) ==
    IF getAuthenticatedUser(caller) # NoError THEN getAuthenticatedUser(caller)
    ELSE IF validatePollId(data.poll_id) # NoError THEN validatePollId(data.poll_id)
    ELSE IF validateDiscussionThreadContent(data.content).error # NoError
    THEN validateDiscussionThreadContent(data.content).error
    ELSE IF findById(db, data.poll_id, caller) = {}
    THEN AppError(ThreadMessages.pollNotFound, ErrorType.NOT_FOUND, 404)
    ELSE NoError

\* createDiscussionThread up to the insert: authentication, validation of
\* the input, the parent of a reply, the poll
CreateChecks(rows, db, caller, data) ==
    IF getAuthenticatedUser(caller) # NoError THEN getAuthenticatedUser(caller)
    ELSE IF validatePollId(data.poll_id) # NoError THEN validatePollId(data.poll_id)
    ELSE IF validateDiscussionThreadContent(data.content).error # NoError
    THEN validateDiscussionThreadContent(data.content).error
    ELSE LET parentThread == {r \in rows : r.id = data.parent_id /\ ~r.is_deleted} IN
    IF data.parent_id # NoThread /\ parentThread = {}
    THEN AppError(ThreadMessages.parentNotFound, ErrorType.NOT_FOUND, 404)
    ELSE IF data.parent_id # NoThread /\ \E r \in parentThread : r.poll_id # data.poll_id
    THEN AppError(ThreadMessages.parentOtherPoll, ErrorType.VALIDATION, 400)
    ELSE IF findById(db, data.poll_id, caller) = {}
    THEN AppError(ThreadMessages.pollNotFound, ErrorType.NOT_FOUND, 404)
    ELSE NoError

\* createDiscussionThread from the insert on
InsertAndRevalidate(rows, db, caller, data, id, t) ==
    LET threadData == [id |-> id, poll_id |-> data.poll_id, parent_id |-> data.parent_id,
                       user_id |-> caller,
                       content |-> validateDiscussionThreadContent(data.content).content,
                       created_at |-> t, is_deleted |-> FALSE]
        inserted == InsertThreadRow(rows, db, threadData, caller) IN
    IF inserted.error # ""
    THEN ThreadResult(rows, AppError(ThreadMessages.createFailed, ErrorType.DATABASE, 500),
                      {}, NoThread)
    ELSE ThreadResult(inserted.threads, NoError,
                      {PollPath(p.share_token) : p \in findById(db, data.poll_id, caller)}, id)

\* updateDiscussionThread that finds soft-deleted threads too
updateDiscussionThreadOfDeleted(rows, db, caller, threadId, data) ==
    withErrorHandling(
    IF getAuthenticatedUser(caller) # NoError
    THEN ThreadResult(rows, getAuthenticatedUser(caller), {}, NoThread)
    ELSE LET existingThread == {r \in rows : r.id = threadId} IN
    IF existingThread = {}
    THEN ThreadResult(rows, AppError(ThreadMessages.commentNotFound, ErrorType.NOT_FOUND, 404),
                      {}, NoThread)
    ELSE IF \E r \in existingThread : r.user_id # caller
    THEN ThreadResult(rows, AppError(ThreadMessages.editOwn, ErrorType.AUTHORIZATION, 403),
                      {}, NoThread)
    ELSE LET old == CHOOSE r \in existingThread : TRUE IN
         ThreadResult((rows \ {old}) \cup
                        {[old EXCEPT
                            !.content = IF data.content = <<>> THEN @ ELSE Trim(data.content[1]),
                            !.is_deleted = IF data.is_deleted = <<>> THEN @
                                           ELSE data.is_deleted[1]]},
                      NoError, {}, threadId))

\* updateDiscussionThread that asks nobody who the author is
updateDiscussionThreadOfAnyone(rows, db, caller, threadId, data) ==
    withErrorHandling(
    IF getAuthenticatedUser(caller) # NoError
    THEN ThreadResult(rows, getAuthenticatedUser(caller), {}, NoThread)
    ELSE LET existingThread == {r \in rows : r.id = threadId /\ ~r.is_deleted} IN
    IF existingThread = {}
    THEN ThreadResult(rows, AppError(ThreadMessages.commentNotFound, ErrorType.NOT_FOUND, 404),
                      {}, NoThread)
    ELSE LET old == CHOOSE r \in existingThread : TRUE IN
         ThreadResult((rows \ {old}) \cup
                        {[old EXCEPT
                            !.content = IF data.content = <<>> THEN @ ELSE Trim(data.content[1]),
                            !.is_deleted = IF data.is_deleted = <<>> THEN @
                                           ELSE data.is_deleted[1]]},
                      NoError, {}, threadId))

\* updateDiscussionThread(threadId, data); a field of data is <<>> when
\* undefined, else <<value>>
updateDiscussionThread(rows, db, caller, threadId, data) ==
    withErrorHandling(
    IF getAuthenticatedUser(caller) # NoError
    THEN ThreadResult(rows, getAuthenticatedUser(caller), {}, NoThread)
    ELSE IF validateThreadId(threadId) # NoError
    THEN ThreadResult(rows, validateThreadId(threadId), {}, NoThread)
    ELSE LET existingThread == {r \in rows : r.id = threadId /\ ~r.is_deleted} IN
    IF existingThread = {}
    THEN ThreadResult(rows, AppError(ThreadMessages.commentNotFound, ErrorType.NOT_FOUND, 404),
                      {}, NoThread)
    ELSE IF \E r \in existingThread : r.user_id # caller
    THEN ThreadResult(rows, AppError(ThreadMessages.editOwn, ErrorType.AUTHORIZATION, 403),
                      {}, NoThread)
    ELSE LET validated == IF data.content = <<>>
                          THEN [error |-> NoError, content |-> <<>>]
                          ELSE validateDiscussionThreadContent(data.content[1]) IN
    IF validated.error # NoError
    THEN ThreadResult(rows, validated.error, {}, NoThread)
    ELSE LET updated == UpdateThreadRow(rows, threadId,
                            [content |-> IF data.content = <<>> THEN <<>>
                                         ELSE <<validated.content>>,
                             is_deleted |-> data.is_deleted],
                            caller) IN
    IF updated.error # ""
    THEN ThreadResult(rows, AppError(ThreadMessages.updateFailed, ErrorType.DATABASE, 500),
                      {}, NoThread)
    ELSE ThreadResult(updated.threads, NoError,
                      {PollPath(p.share_token) :
                          p \in UNION {findById(db, r.poll_id, caller) : r \in existingThread}},
                      threadId))

\* deleteDiscussionThread
deleteDiscussionThread(rows, db, caller, threadId) ==
    withErrorHandling(
        updateDiscussionThread(rows, db, caller, threadId,
                               [content |-> <<>>, is_deleted |-> <<TRUE>>]))

(***************************************************************************)
(* Initial state and steps                                                 *)
(***************************************************************************)
\* highest order_index of the options a vote or an option deletion names
MaxOptionIndex == 1

\* a call that takes no form payload
NoForm ==
    [title |-> NoValue, description |-> NoValue, options |-> <<>>,
     allowMultiple |-> FALSE, expiresAt |-> NoDate, isActive |-> NoValue]

\* the answer of a server action carries no HTTP status
NoStatus == 0

NoCall ==
    [op |-> "none", caller |-> NoUser, pollId |-> NoId, optionId |-> NoId,
     formData |-> NoForm, error |-> NoError, touched |-> {}, revalidated |-> {},
     redirected |-> NoPath, status |-> NoStatus, data |-> <<>>]

\* the call op(caller, pollId, optionId, formData) and its result r
Call(op, caller, pollId, optionId, formData, r) ==
    [op |-> op, caller |-> caller, pollId |-> pollId, optionId |-> optionId,
     formData |-> formData, error |-> r.error, touched |-> r.touched,
     revalidated |-> r.revalidated, redirected |-> r.redirected, status |-> NoStatus,
     data |-> <<>>]

\* the request op of a route handler and its JSON response
Request(op, caller, pollId, formData, response) ==
    [op |-> op, caller |-> caller, pollId |-> pollId, optionId |-> NoId,
     formData |-> formData, error |-> response.error, touched |-> {},
     revalidated |-> {}, redirected |-> NoPath, status |-> response.status,
     data |-> <<>>]

\* the call op(pollId) of a service that reads, and the value it resolved to
Read(op, caller, pollId, data) ==
    [NoCall EXCEPT !.op = op, !.caller = caller, !.pollId = pollId, !.data = data]

NoTree == [threadMap |-> <<>>, topLevelThreads |-> <<>>]

\* no wrapped function has run
NoOutcome == Return([polls |-> {}, options |-> {}, votes |-> {}], {}, {}, NoPath)

Init ==
    /\ polls = {}
    /\ options = {}
    /\ votes = {}
    /\ threads = {}
    /\ now = 0
    /\ nextPollId = 1
    /\ nextOptionId = 1
    /\ nextVoteId = 1
    /\ pending = NoCall
    /\ fetchedThreads = <<>>
    /\ tree = NoTree
    /\ outcome = NoOutcome
    /\ auth = MountedProvider
    /\ inflight = {}

Store(db) ==
    /\ polls' = db.polls
    /\ options' = db.options
    /\ votes' = db.votes

PollIdInputs == 1..MaxPolls
OptionIdInputs ==
    {o.id : o \in {e \in options : e.order_index <= MaxOptionIndex}} \cup {nextOptionId}
ReplacementLists == {<<"Red">>, <<"Blue", "Red">>, Repeat("Red", TriggerMaxOptions + 1)}

CreatePoll(caller, formData) ==
    /\ pending = NoCall
    /\ nextPollId <= MaxPolls
    /\ LET r == createPoll(Db, caller, formData, now, nextPollId, nextOptionId) IN
       /\ Store(r.db)
       /\ nextPollId' = IF r.db.polls # polls THEN nextPollId + 1 ELSE nextPollId
       /\ nextOptionId' = nextOptionId + Cardinality(r.db.options \ options)
       /\ pending' = Call("createPoll", caller, NoId, NoId, formData, r)
    /\ UNCHANGED <<threads, outcome, auth, inflight, now, nextVoteId, fetchedThreads, tree>>

SubmitVote(caller, pollId, optionId) ==
    /\ pending = NoCall
    /\ nextVoteId <= MaxVotes
    /\ LET r == submitVote(Db, caller, pollId, optionId, now, nextVoteId) IN
       /\ Store(r.db)
       /\ nextVoteId' = IF r.db.votes # votes THEN nextVoteId + 1 ELSE nextVoteId
       /\ pending' = Call("submitVote", caller, pollId, optionId, NoForm, r)
    /\ UNCHANGED <<threads, outcome, auth, inflight, now, nextPollId, nextOptionId, fetchedThreads, tree>>

UpdatePoll(caller, pollId, formData) ==
    /\ pending = NoCall
    /\ LET r == updatePoll(Db, caller, pollId, formData) IN
       /\ Store(r.db)
       /\ pending' = Call("updatePoll", caller, pollId, NoId, formData, r)
    /\ UNCHANGED <<threads, outcome, auth, inflight, now, nextPollId, nextOptionId, nextVoteId, fetchedThreads, tree>>

DeletePoll(caller, pollId) ==
    /\ pending = NoCall
    /\ LET r == deletePoll(Db, caller, pollId) IN
       /\ Store(r.db)
       /\ pending' = Call("deletePoll", caller, pollId, NoId, NoForm, r)
    /\ UNCHANGED <<threads, outcome, auth, inflight, now, nextPollId, nextOptionId, nextVoteId, fetchedThreads, tree>>

GetUserPolls(caller) ==
    /\ pending = NoCall
    /\ LET r == getUserPolls(Db, caller) IN
       /\ Store(r.db)
       /\ pending' = Call("getUserPolls", caller, NoId, NoId, NoForm, r)
    /\ UNCHANGED <<threads, outcome, auth, inflight, now, nextPollId, nextOptionId, nextVoteId, fetchedThreads, tree>>

DeleteOption(caller, optionId) ==
    /\ pending = NoCall
    /\ LET r == deleteOption(Db, caller, optionId) IN
       /\ Store(r.db)
       /\ pending' = Call("deleteOption", caller, NoId, optionId, NoForm, r)
    /\ UNCHANGED <<threads, outcome, auth, inflight, now, nextPollId, nextOptionId, nextVoteId, fetchedThreads, tree>>

UpdateMany(caller, pollId, texts) ==
    /\ pending = NoCall
    /\ LET r == updateMany(Db, caller, pollId, texts, nextOptionId) IN
       /\ Store(r.db)
       /\ nextOptionId' = nextOptionId + Cardinality(r.db.options \ options)
       /\ pending' = Call("updateMany", caller, pollId, NoId, [NoForm EXCEPT !.options = texts], r)
    /\ UNCHANGED <<threads, outcome, auth, inflight, now, nextPollId, nextVoteId, fetchedThreads, tree>>

\* the response of the answered call is delivered; calls are served one
\* after the other
Respond ==
    /\ pending # NoCall
    /\ pending' = NoCall
    /\ UNCHANGED <<polls, options, votes, threads, outcome, auth, inflight, now, nextPollId, nextOptionId,
                   nextVoteId, fetchedThreads, tree>>

\* time passes
Tick ==
    /\ now < MaxTime
    /\ now' = now + 1
    /\ UNCHANGED <<polls, options, votes, threads, outcome, auth, inflight, nextPollId, nextOptionId,
                   nextVoteId, pending, fetchedThreads, tree>>

Next ==
    \/ \E caller \in Callers, formData \in PollForms : CreatePoll(caller, formData)
    \/ \E caller \in Callers, pollId \in {NoId} \cup PollIdInputs, optionId \in {NoId} \cup OptionIdInputs :
          SubmitVote(caller, pollId, optionId)
    \/ \E caller \in Callers, pollId \in PollIdInputs, formData \in PollForms \cup EditPageForms :
          UpdatePoll(caller, pollId, formData)
    \/ \E caller \in Callers, pollId \in PollIdInputs : DeletePoll(caller, pollId)
    \/ \E caller \in Callers : GetUserPolls(caller)
    \/ \E caller \in Callers, optionId \in OptionIdInputs : DeleteOption(caller, optionId)
    \/ \E caller \in Callers, pollId \in PollIdInputs, texts \in ReplacementLists :
          UpdateMany(caller, pollId, texts)
    \/ Respond
    \/ Tick

Spec == Init /\ [][Next]_vars

(***************************************************************************)
(* Reading the discussion of a poll                                        *)
(***************************************************************************)
\* the tables of at most n discussion rows that createDiscussionThread and
\* the is_deleted flag allow: a reply has a parent of the same poll that
\* was created before it; rows are numbered in the order of their creation
RECURSIVE ThreadTablesOfSize(_)
ThreadTablesOfSize(n) ==
    IF n = 0 THEN {{}}
    ELSE UNION {
           { T \cup {r} :
               r \in { x \in [id : {n}, poll_id : ThreadPolls,
                              parent_id : {NoThread} \cup {q.id : q \in T},
                              created_at : 0..MaxTime, is_deleted : BOOLEAN] :
                         /\ \A q \in T : q.created_at <= x.created_at
                         /\ x.parent_id # NoThread =>
                              \E q \in T : /\ q.id = x.parent_id
                                           /\ q.poll_id = x.poll_id
                                           /\ q.created_at < x.created_at } }
           : T \in {S \in ThreadTablesOfSize(n - 1) : Cardinality(S) = n - 1} }
         \cup ThreadTablesOfSize(n - 1)

InitThreads ==
    /\ polls = {}
    /\ options = {}
    /\ votes = {}
    /\ threads \in ThreadTablesOfSize(MaxThreads)
    /\ now = MaxTime
    /\ nextPollId = 1
    /\ nextOptionId = 1
    /\ nextVoteId = 1
    /\ pending = NoCall
    /\ fetchedThreads = <<>>
    /\ tree = NoTree
    /\ outcome = NoOutcome
    /\ auth = MountedProvider
    /\ inflight = {}

\* getDiscussionThreads(pollId): the query on the view, then the tree
GetDiscussionThreads(pollId) ==
    /\ IF validatePollId(pollId) # NoError
       THEN /\ pending' = Call("getDiscussionThreads", NoUser, pollId, NoId, NoForm,
                               Throw(Db, handleServerError(validatePollId(pollId)), {}))
            /\ UNCHANGED <<fetchedThreads, tree>>
       ELSE \E fetched \in OrderedByCreatedAt(ThreadView(threads, pollId)) :
            /\ fetchedThreads' = fetched
            /\ tree' = getDiscussionThreads(fetched)
            /\ pending' = Call("getDiscussionThreads", NoUser, pollId, NoId, NoForm,
                               Return(Db, {"discussion_threads_with_users"}, {}, NoPath))
    /\ UNCHANGED <<polls, options, votes, threads, outcome, auth, inflight, now, nextPollId, nextOptionId, nextVoteId>>

NextThreads ==
    \E pollId \in {NoId} \cup ThreadPolls : GetDiscussionThreads(pollId)

SpecThreads == InitThreads /\ [][NextThreads]_vars

(***************************************************************************)
(* The HTTP routes /api/polls and /api/polls/[id]                          *)
(***************************************************************************)
Post(caller, formData) ==
    /\ pending = NoCall
    /\ nextPollId <= MaxPolls
    /\ LET response == POST(Db, caller, formData, now, nextPollId, nextOptionId) IN
       /\ Store(response.db)
       /\ nextPollId' = IF response.db.polls # polls THEN nextPollId + 1 ELSE nextPollId
       /\ nextOptionId' = nextOptionId + Cardinality(response.db.options \ options)
       /\ pending' = Request("POST", caller, NoId, formData, response)
    /\ UNCHANGED <<threads, outcome, auth, inflight, now, nextVoteId, fetchedThreads, tree>>

Get(caller) ==
    /\ pending = NoCall
    /\ LET response == GET(Db, caller) IN
       /\ Store(response.db)
       /\ pending' = Request("GET", caller, NoId, NoForm, response)
    /\ UNCHANGED <<threads, outcome, auth, inflight, now, nextPollId, nextOptionId, nextVoteId, fetchedThreads, tree>>

Put(caller, pollId, formData) ==
    /\ pending = NoCall
    /\ LET response == PUT(Db, caller, pollId, formData) IN
       /\ Store(response.db)
       /\ pending' = Request("PUT", caller, pollId, formData, response)
    /\ UNCHANGED <<threads, outcome, auth, inflight, now, nextPollId, nextOptionId, nextVoteId, fetchedThreads, tree>>

Delete(caller, pollId) ==
    /\ pending = NoCall
    /\ LET response == DELETE(Db, caller, pollId) IN
       /\ Store(response.db)
       /\ pending' = Request("DELETE", caller, pollId, NoForm, response)
    /\ UNCHANGED <<threads, outcome, auth, inflight, now, nextPollId, nextOptionId, nextVoteId, fetchedThreads, tree>>

NextRoutes ==
    \/ \E caller \in Callers, formData \in PollForms : Post(caller, formData)
    \/ \E caller \in Callers : Get(caller)
    \/ \E caller \in Callers, pollId \in PollIdInputs, formData \in PollForms :
          Put(caller, pollId, formData)
    \/ \E caller \in Callers, pollId \in PollIdInputs : Delete(caller, pollId)
    \/ Respond
    \/ Tick

SpecRoutes == Init /\ [][NextRoutes]_vars

(***************************************************************************)
(* Classifying and wrapping: the values a function may throw, classifyError *)
(* and withErrorHandling applied to them                                    *)
(***************************************************************************)
\* messages of thrown errors: those of the tests, and every two keywords of
\* classifyError side by side
ErrorMessages ==
    LET lists == <<Keywords.authentication, Keywords.authorization, Keywords.validation,
                   Keywords.network, Keywords.rateLimit, Keywords.notFound, Keywords.database>>
        keywords == UNION {{lists[c][i] : i \in 1..Len(lists[c])} : c \in 1..Len(lists)}
    IN {TestMessages[i] : i \in 1..Len(TestMessages)}
       \cup {a \o <<" ">> \o b : a \in keywords, b \in keywords}

\* what a wrapped function does: it returns, or it throws an Error, an
\* AppError, a string or some other value
Outcomes ==
    {Return(Db, {}, {}, NoPath), Return(Db, {"polls"}, {DashboardPath}, NoPath),
     Return(Db, {"polls", "poll_options"}, {DashboardPath}, PollPath(TokenBase))}
    \cup {Throw(Db, PlainError(message), {}) : message \in ErrorMessages}
    \cup {Throw(Db, AppError(TestMessages[i], type, IF type = ErrorType.NETWORK THEN 503 ELSE 500), {}) :
            i \in 1..Len(TestMessages), type \in {ErrorType.NETWORK, ErrorType.UNKNOWN}}
    \cup {Throw(Db, AppError(ActionMessages.authenticationRequired, ErrorType.AUTHENTICATION, 401), {}),
          Throw(Db, AppError(ActionMessages.accessDenied, ErrorType.AUTHORIZATION, 403), {})}
    \cup {Throw(Db, ThrownString(TestMessages[i]), {}) : i \in 1..Len(TestMessages)}
    \cup {Throw(Db, ThrownObject, {})}

InitErrors ==
    /\ polls = {}
    /\ options = {}
    /\ votes = {}
    /\ threads = {}
    /\ now = 0
    /\ nextPollId = 1
    /\ nextOptionId = 1
    /\ nextVoteId = 1
    /\ pending = NoCall
    /\ fetchedThreads = <<>>
    /\ tree = NoTree
    /\ outcome \in Outcomes
    /\ auth = MountedProvider
    /\ inflight = {}

\* classifyError(error) for the value the function threw
ClassifyError ==
    /\ pending = NoCall
    /\ outcome.error # NoError
    /\ pending' = Call("classifyError", NoUser, NoId, NoId, NoForm,
                       Throw(Db, classifyError(outcome.error), {}))
    /\ UNCHANGED <<polls, options, votes, threads, outcome, auth, inflight, now,
                   nextPollId, nextOptionId, nextVoteId, fetchedThreads, tree>>

\* a call of the function wrapped by withErrorHandling
WithErrorHandling ==
    /\ pending = NoCall
    /\ pending' = Call("withErrorHandling", NoUser, NoId, NoId, NoForm,
                       withErrorHandling(outcome))
    /\ UNCHANGED <<polls, options, votes, threads, outcome, auth, inflight, now,
                   nextPollId, nextOptionId, nextVoteId, fetchedThreads, tree>>

NextErrors ==
    \/ ClassifyError
    \/ WithErrorHandling
    \/ Respond

SpecErrors == InitErrors /\ [][NextErrors]_vars

(***************************************************************************)
(* Counting the votes of a poll                                            *)
(***************************************************************************)
\* number of vote rows of the poll whose votes are counted
MaxCounted == 3

\* a poll that allows multiple votes, as createPoll stores it, with any
\* votes its signed-in voters may have cast for its options
InitResults ==
    LET created == createPoll([polls |-> {}, options |-> {}, votes |-> {}], "A",
                       [title |-> "Poll", description |-> NoValue,
                        options |-> <<"Red", "Blue">>, allowMultiple |-> TRUE,
                        expiresAt |-> NoDate, isActive |-> NoValue], 0, 1, 1).db
    IN
    /\ polls = created.polls
    /\ options = created.options
    /\ \E n \in 0..MaxCounted :
          \E cast \in [1..n -> {o.id : o \in created.options} \X Users] :
             /\ votes = { [id |-> i, poll_id |-> 1, option_id |-> cast[i][1],
                           voter_id |-> cast[i][2], voter_ip |-> NoUser] : i \in 1..n }
             /\ nextVoteId = n + 1
    /\ threads = {}
    /\ now = 0
    /\ nextPollId = 2
    /\ nextOptionId = 3
    /\ pending = NoCall
    /\ fetchedThreads = <<>>
    /\ tree = NoTree
    /\ outcome = NoOutcome
    /\ auth = MountedProvider
    /\ inflight = {}

GetVoteCountsByOption(caller, pollId) ==
    /\ pending = NoCall
    /\ pending' = Read("getVoteCountsByOption", caller, pollId,
                       getVoteCountsByOption(Db, pollId, caller))
    /\ UNCHANGED <<polls, options, votes, threads, outcome, auth, inflight, now,
                   nextPollId, nextOptionId, nextVoteId, fetchedThreads, tree>>

FindWithResults(caller, pollId) ==
    /\ pending = NoCall
    /\ pending' = Read("findWithResults", caller, pollId,
                       findWithResults(Db, randomUUID(pollId), caller))
    /\ UNCHANGED <<polls, options, votes, threads, outcome, auth, inflight, now,
                   nextPollId, nextOptionId, nextVoteId, fetchedThreads, tree>>

NextResults ==
    \/ \E caller \in Callers, pollId \in 1..(MaxPolls + 1) :
          GetVoteCountsByOption(caller, pollId)
    \/ \E caller \in Callers, pollId \in 1..(MaxPolls + 1) :
          FindWithResults(caller, pollId)
    \/ Respond

SpecResults == InitResults /\ [][NextResults]_vars

(***************************************************************************)
(* The AuthProvider in the browser                                         *)
(***************************************************************************)
\* number of auth state changes delivered to the provider
MaxAuthEvents == 3

GetSessionResolves(result) ==
    /\ auth.getSession = "pending"
    /\ auth' = getSession(auth, result)
    /\ UNCHANGED <<polls, options, votes, threads, outcome, inflight, now, nextPollId,
                   nextOptionId, nextVoteId, pending, fetchedThreads, tree>>

AuthStateChange(session) ==
    /\ auth.subscribed
    /\ auth.refreshCalls < MaxAuthEvents
    /\ auth' = handleAuthStateChange(auth, session)
    /\ UNCHANGED <<polls, options, votes, threads, outcome, inflight, now, nextPollId,
                   nextOptionId, nextVoteId, pending, fetchedThreads, tree>>

Unmount ==
    /\ auth.mounted
    /\ auth' = cleanup(auth)
    /\ UNCHANGED <<polls, options, votes, threads, outcome, inflight, now, nextPollId,
                   nextOptionId, nextVoteId, pending, fetchedThreads, tree>>

NextAuth ==
    \* supabase.auth.getSession() resolves to { data: { session }, error }
    \/ \E result \in [session : Sessions \cup {NoSession}, error : {FALSE}]
                       \cup [session : {NoSession}, error : {TRUE}] :
          GetSessionResolves(result)
    \/ \E session \in Sessions \cup {NoSession} : AuthStateChange(session)
    \/ Unmount

SpecAuth == Init /\ [][NextAuth]_vars

(***************************************************************************)
(* Vote inserts as concurrent transactions (READ COMMITTED): the triggers  *)
(* of a statement see the rows committed when it runs, and its own row is  *)
(* seen by others once it commits                                          *)
(***************************************************************************)
\* a transaction is kept as its row, the ids of the vote rows its triggers
\* could see, and whether it has committed

\* VoteService.create, up to the end of the INSERT statement
BeginInsert(caller, pollId, optionId) ==
    /\ nextVoteId <= MaxVotes
    /\ LET vote == [id |-> nextVoteId, poll_id |-> pollId, option_id |-> optionId,
                    voter_id |-> caller, voter_ip |-> NoUser]
           created == InsertVote(Db, vote, now) IN
       /\ created.error = <<>>
       /\ inflight' = inflight \cup {[vote |-> vote, seen |-> {v.id : v \in votes}, committed |-> FALSE]}
       /\ nextVoteId' = nextVoteId + 1
    /\ UNCHANGED <<polls, options, votes, threads, outcome, auth, now, nextPollId,
                   nextOptionId, pending, fetchedThreads, tree>>

\* the transaction of the request commits
Commit(t) ==
    /\ ~t.committed
    /\ votes' = votes \cup {t.vote}
    /\ inflight' = (inflight \ {t}) \cup {[t EXCEPT !.committed = TRUE]}
    /\ UNCHANGED <<polls, options, threads, outcome, auth, now, nextPollId,
                   nextOptionId, nextVoteId, pending, fetchedThreads, tree>>

NextConcurrent ==
    \/ \E caller \in Callers, formData \in PollForms : CreatePoll(caller, formData)
    \/ \E caller \in Callers, pollId \in PollIdInputs, optionId \in OptionIdInputs :
          BeginInsert(caller, pollId, optionId)
    \/ \E t \in inflight : Commit(t)
    \/ Respond

SpecConcurrent == Init /\ [][NextConcurrent]_vars

(***************************************************************************)
(* The discussion actions. createDiscussionThread looks the parent up and  *)
(* inserts the reply in separate requests to the database, so other calls  *)
(* may be served in between; inflight holds the calls that have passed the *)
(* checks and not yet inserted                                             *)
(***************************************************************************)
\* the discussion call op(caller, threadId, data), its result r, and
\* whether the parent's author called its soft deletion while it was in flight
ThreadCall(op, caller, threadId, data, r, raced) ==
    [NoCall EXCEPT !.op = op, !.caller = caller, !.error = r.error,
                   !.revalidated = r.revalidated,
                   !.data = [threadId |-> threadId, input |-> data, thread |-> r.thread,
                             raced |-> raced]]

\* two polls of user A, and at most one thread, soft-deleted or not
InitDiscussion ==
    LET form == [title |-> "Poll", description |-> NoValue, options |-> <<"Red", "Blue">>,
                 allowMultiple |-> FALSE, expiresAt |-> NoDate, isActive |-> NoValue]
        first == createPoll([polls |-> {}, options |-> {}, votes |-> {}], "A", form, 0, 1, 1).db
        second == createPoll(first, "A", form, 0, 2, 3).db
    IN
    /\ polls = second.polls
    /\ options = second.options
    /\ votes = {}
    /\ threads \in {{}} \cup
          {{[id |-> 1, poll_id |-> p, parent_id |-> NoThread, user_id |-> u,
             content |-> <<"H", "i">>, created_at |-> 0, is_deleted |-> d]} :
              p \in ThreadPolls, u \in Users, d \in BOOLEAN}
    /\ now = 0
    /\ nextPollId = 3
    /\ nextOptionId = 5
    /\ nextVoteId = 1
    /\ pending = NoCall
    /\ fetchedThreads = <<>>
    /\ tree = NoTree
    /\ outcome = NoOutcome
    /\ auth = MountedProvider
    /\ inflight = {}

\* createDiscussionThread(data), up to the insert
BeginCreateDiscussionThread(caller, data) ==
    /\ pending = NoCall
    /\ Cardinality(threads) + Cardinality(inflight) < MaxThreads
    /\ LET error == CreateChecks(threads, Db, caller, data) IN
       IF error # NoError
       THEN /\ pending' = ThreadCall("createDiscussionThread", caller, NoThread, data,
                              withErrorHandling(ThreadResult(threads, error, {}, NoThread)),
                              FALSE)
            /\ UNCHANGED inflight
       ELSE /\ inflight' = inflight \cup {[caller |-> caller, data |-> data, raced |-> FALSE]}
            /\ UNCHANGED pending
    /\ UNCHANGED <<polls, options, votes, threads, outcome, auth, now, nextPollId,
                   nextOptionId, nextVoteId, fetchedThreads, tree>>

\* createDiscussionThread(data), from the insert on
FinishCreateDiscussionThread(c) ==
    /\ pending = NoCall
    /\ LET r == withErrorHandling(
                    InsertAndRevalidate(threads, Db, c.caller, c.data,
                                        Cardinality(threads) + 1, now)) IN
       /\ threads' = r.threads
       /\ pending' = ThreadCall("createDiscussionThread", c.caller, NoThread, c.data, r, c.raced)
    /\ inflight' = inflight \ {c}
    /\ UNCHANGED <<polls, options, votes, outcome, auth, now, nextPollId,
                   nextOptionId, nextVoteId, fetchedThreads, tree>>

UpdateDiscussionThread(caller, threadId, data) ==
    /\ pending = NoCall
    /\ LET r == updateDiscussionThread(threads, Db, caller, threadId, data) IN
       /\ threads' = r.threads
       /\ pending' = ThreadCall("updateDiscussionThread", caller, threadId, data, r, FALSE)
    /\ UNCHANGED <<polls, options, votes, outcome, auth, inflight, now, nextPollId,
                   nextOptionId, nextVoteId, fetchedThreads, tree>>

DeleteDiscussionThread(caller, threadId) ==
    /\ pending = NoCall
    /\ LET r == deleteDiscussionThread(threads, Db, caller, threadId) IN
       /\ threads' = r.threads
       /\ pending' = ThreadCall("deleteDiscussionThread", caller, threadId,
                                [content |-> <<>>, is_deleted |-> <<TRUE>>], r, FALSE)
    /\ inflight' = {[c EXCEPT !.raced = @ \/ (/\ c.data.parent_id = threadId
                                                /\ \E r \in threads : r.id = threadId
                                                                       /\ r.user_id = caller)] :
                       c \in inflight}
    /\ UNCHANGED <<polls, options, votes, outcome, auth, now, nextPollId,
                   nextOptionId, nextVoteId, fetchedThreads, tree>>

NextDiscussion ==
    \/ \E caller \in Callers,
          data \in [poll_id : {NoId} \cup ThreadPolls, parent_id : 0..MaxThreads,
                    content : {<<" ">>, <<"H", "i">>, Repeat("x", ContentMaxLen + 1)}] :
          BeginCreateDiscussionThread(caller, data)
    \/ \E c \in inflight : FinishCreateDiscussionThread(c)
    \/ \E caller \in Callers, threadId \in 0..MaxThreads,
          data \in {[content |-> << <<" ", "Y", "o", " ">> >>, is_deleted |-> <<>>],
                    [content |-> << <<" ">> >>, is_deleted |-> <<>>],
                    [content |-> <<>>, is_deleted |-> <<FALSE>>],
                    [content |-> << <<" ", "Y", "o", " ">> >>, is_deleted |-> <<TRUE>>]} :
          UpdateDiscussionThread(caller, threadId, data)
    \/ \E caller \in Callers, threadId \in 0..MaxThreads : DeleteDiscussionThread(caller, threadId)
    \/ Respond

SpecDiscussion == InitDiscussion /\ [][NextDiscussion]_vars

(***************************************************************************)
(* The vote form of components/features/polls                              *)
(***************************************************************************)
\* formData.get(key) as getFormDataString reads it: the value of the first
\* entry of that name, null (NoId) when there is none. formData is the
\* sequence of the <<name, value>> entries appended
getFormDataString(formData, key) ==
    IF \E i \in DOMAIN formData : formData[i][1] = key
    THEN formData[CHOOSE i \in DOMAIN formData :
                      /\ formData[i][1] = key
                      /\ \A j \in DOMAIN formData : formData[j][1] = key => i <= j][2]
    ELSE NoId

\* handleSubmit with selectedOptions the list of the options checked: the
\* form data, the call of submitVote, the toast and the navigation. An
\* empty selection ends in an error toast without a call
handleSubmit(db, caller, pollId, shareToken, selectedOptions, t, voteId) ==
    IF selectedOptions = <<>>
    THEN [db |-> db, error |-> NoError, touched |-> {}, revalidated |-> {},
          redirected |-> NoPath, toast |-> "error"]
    ELSE LET formData == << <<"pollId", pollId>>, <<"shareToken", shareToken>> >>
                         \o [i \in 1..Len(selectedOptions) |-> <<"optionIds", selectedOptions[i]>>]
             r == submitVote(db, caller, getFormDataString(formData, "pollId"),
                             getFormDataString(formData, "optionId"), t, voteId) IN
         [db |-> r.db, error |-> r.error, touched |-> r.touched, revalidated |-> r.revalidated,
          redirected |-> IF r.error = NoError THEN <<"/polls/results", shareToken>> ELSE NoPath,
          toast |-> IF r.error = NoError THEN "success" ELSE "error"]

\* the form of poll pollId is submitted with selectedOptions checked
HandleSubmit(caller, pollId, selectedOptions) ==
    /\ pending = NoCall
    /\ LET r == handleSubmit(Db, caller, pollId, randomUUID(pollId), selectedOptions, now,
                             nextVoteId) IN
       /\ Store(r.db)
       /\ nextVoteId' = IF r.db.votes # votes THEN nextVoteId + 1 ELSE nextVoteId
       /\ pending' = [Call("handleSubmit", caller, pollId, NoId, NoForm, r) EXCEPT
                         !.data = [selectedOptions |-> selectedOptions, toast |-> r.toast]]
    /\ UNCHANGED <<threads, outcome, auth, inflight, now, nextPollId, nextOptionId,
                   fetchedThreads, tree>>

NextVoteForm ==
    \/ \E caller \in Callers, selectedOptions \in {<<>>, <<1>>, <<2>>, <<1, 2>>, <<2, 1>>} :
          HandleSubmit(caller, 1, selectedOptions)
    \/ Respond

\* the form of a poll that allows multiple votes, with the votes cast so far
SpecVoteForm == InitResults /\ [][NextVoteForm]_vars

(***************************************************************************)
(* Properties of the poll actions                                          *)
(***************************************************************************)
\* the step is the answer to a call of op
Answers(op) == pending = NoCall /\ pending' # NoCall /\ pending'.op = op

\* the votes of user u on poll pollId among the rows vs
UserVotes(vs, u, pollId) == {v \in vs : v.poll_id = pollId /\ v.voter_id = u}

\* the three tables are as they were
TablesUnchanged == polls' = polls /\ options' = options /\ votes' = votes

\* C1, as stated: every poll has between 2 and 20 options, whatever calls
\* of create, update, option deletion and option replacement were made
C1_OptionCountInRange ==
    \A p \in polls :
        /\ Cardinality(OptionsOf(Db, p.id)) >= TriggerMinOptions
        /\ Cardinality(OptionsOf(Db, p.id)) <= TriggerMaxOptions

\* C2: on a poll that does not allow multiple votes, submitVote by an
\* authenticated user who already has a vote on the poll is rejected and
\* adds no vote, so the number of votes of the user on the poll stays
C2_SecondVoteRejected ==
    [][(/\ Answers("submitVote")
        /\ pending'.caller \in Users
        /\ \E p \in polls : p.id = pending'.pollId /\ ~p.allow_multiple_votes
        /\ UserVotes(votes, pending'.caller, pending'.pollId) # {})
       => (/\ pending'.error # NoError
           /\ votes' = votes
           /\ Cardinality(UserVotes(votes', pending'.caller, pending'.pollId))
                = Cardinality(UserVotes(votes, pending'.caller, pending'.pollId)))]_vars

\* C2 happens: a user with exactly one vote on a single-vote poll was told
\* 'You have already voted in this poll'
C2_Witness ==
    /\ pending.op = "submitVote"
    /\ pending.caller \in Users
    /\ pending.error.message = FailedTo.createVote \o RaiseException.alreadyVoted
    /\ \E p \in polls : p.id = pending.pollId /\ ~p.allow_multiple_votes
    /\ Cardinality(UserVotes(votes, pending.caller, pending.pollId)) = 1

\* the step answers a vote, with both ids given, on an active poll whose
\* expires_at is in the past
VoteOnExpiredPoll ==
    /\ Answers("submitVote")
    /\ pending'.pollId # NoId /\ pending'.optionId # NoId
    /\ \E p \in polls : /\ p.id = pending'.pollId
                        /\ p.is_active
                        /\ p.expires_at # NoDate /\ p.expires_at < now

\* after the step the poll page of the poll voted on shows, to the voter,
\* results and not the vote form: every option with the number of votes it
\* had before the step
PageShowsResults ==
    \A p \in polls : p.id = pending'.pollId =>
        LET page == PollPage([polls |-> polls', options |-> options', votes |-> votes'],
                             p.share_token, pending'.caller, now') IN
        /\ ~page.notFound
        /\ ~page.canVote
        /\ {page.optionsWithCounts[i].id : i \in 1..Len(page.optionsWithCounts)}
             = {o.id : o \in OptionsOf(Db, p.id)}
        /\ \A i \in 1..Len(page.optionsWithCounts) :
              page.optionsWithCounts[i].vote_count
                = Cardinality({v \in votes : v.option_id = page.optionsWithCounts[i].id})

\* the voter of the step already has a vote on the poll, which allows one
AlreadyVotedSingle ==
    /\ pending'.caller \in Users
    /\ \E p \in polls : p.id = pending'.pollId /\ ~p.allow_multiple_votes
    /\ UserVotes(votes, pending'.caller, pending'.pollId) # {}

\* C3, as stated: a vote on an active poll whose expires_at is in the past
\* is rejected with 'This poll has expired', adds no vote, and the poll page
\* shows the results
C3_ExpiredAlwaysReported ==
    [][VoteOnExpiredPoll
       => (/\ pending'.error.message = FailedTo.createVote \o RaiseException.expired
           /\ votes' = votes
           /\ PageShowsResults)]_vars

\* C3, amended: such a vote is rejected and adds no vote, and the poll page
\* shows the results; the error is 'This poll has expired' unless the poll
\* allows one vote and the voter is a user who already has one, and then it
\* is 'You have already voted in this poll'
C3_ExpiredRejected ==
    [][VoteOnExpiredPoll
       => (/\ pending'.error.message =
                 FailedTo.createVote \o (IF AlreadyVotedSingle THEN RaiseException.alreadyVoted ELSE RaiseException.expired)
           /\ votes' = votes
           /\ PageShowsResults)]_vars

\* C3 happens: a vote on an expired active poll that has votes was answered
\* 'This poll has expired'
C3_Witness ==
    /\ pending.op = "submitVote"
    /\ pending.error.message = FailedTo.createVote \o RaiseException.expired
    /\ \E p \in polls : /\ p.id = pending.pollId
                        /\ p.is_active
                        /\ p.expires_at # NoDate /\ p.expires_at < now
                        /\ VotesOf(Db, p.id) # {}

\* C4, as stated: a vote naming an option that is not an option of the poll
\* is rejected, adds no vote, and the error of submitVote has type ErrorType.DATABASE
C4_ForeignOptionIsDatabaseError ==
    [][(/\ Answers("submitVote")
        /\ pending'.pollId # NoId /\ pending'.optionId # NoId
        /\ ~\E o \in options : o.id = pending'.optionId /\ o.poll_id = pending'.pollId)
       => (/\ pending'.error # NoError
           /\ votes' = votes
           /\ pending'.error.type = ErrorType.DATABASE)]_vars

\* C5: deletePoll by a user who is not the creator of the poll fails with
\* an authorization error (403), which the DELETE route answers with status
\* 403, and the poll, its options and its votes are still there
C5_DeleteByOtherUserDenied ==
    [][(/\ Answers("deletePoll")
        /\ pending'.caller \in Users
        /\ \E p \in polls : p.id = pending'.pollId /\ p.creator_id # pending'.caller)
       => (/\ pending'.error.type = ErrorType.AUTHORIZATION
           /\ pending'.error.statusCode = 403
           /\ DELETE(Db, pending'.caller, pending'.pollId).status = 403
           /\ ~DELETE(Db, pending'.caller, pending'.pollId).success
           /\ TablesUnchanged)]_vars

\* C5 happens: a user was denied the deletion of another user's poll, which
\* has options and votes
C5_Witness ==
    /\ pending.op = "deletePoll"
    /\ pending.caller \in Users
    /\ pending.error.type = ErrorType.AUTHORIZATION
    /\ \E p \in polls : /\ p.id = pending.pollId
                        /\ p.creator_id # pending.caller
                        /\ OptionsOf(Db, p.id) # {}
                        /\ VotesOf(Db, p.id) # {}

\* the step answers updatePoll or deletePoll of a user, for a poll that is
\* missing or was created by somebody else
CallOnForeignPoll(op) ==
    /\ Answers(op)
    /\ pending'.caller \in Users
    /\ \A p \in polls : p.id = pending'.pollId => p.creator_id # pending'.caller

\* the answer is the authorization error 'Poll not found or access denied'
AccessDenied ==
    /\ pending'.error.type = ErrorType.AUTHORIZATION
    /\ pending'.error.statusCode = 403

\* a poll row changes or goes only in a call of updatePoll or deletePoll by
\* the creator of the poll
OnlyCreatorChangesPoll ==
    \A p \in polls : p \notin polls' =>
        /\ pending'.op \in {"updatePoll", "deletePoll"}
        /\ pending'.caller = p.creator_id

\* C6, as stated: updatePoll and deletePoll for a poll that is missing or
\* not the caller's fail with ErrorType.AUTHORIZATION (403) and change nothing, and a
\* poll row is changed or removed only by its creator
C6_ForeignPollAlwaysDenied ==
    [][/\ (CallOnForeignPoll("updatePoll") \/ CallOnForeignPoll("deletePoll"))
            => (AccessDenied /\ TablesUnchanged)
       /\ OnlyCreatorChangesPoll]_vars

\* C6, amended: as C6, except that updatePoll validates the form first: with
\* a form that fails validation it fails with the validation error instead,
\* also without a change
C6_ForeignPollDenied ==
    [][/\ CallOnForeignPoll("deletePoll") => (AccessDenied /\ TablesUnchanged)
       /\ CallOnForeignPoll("updatePoll") =>
            /\ TablesUnchanged
            /\ IF validateUpdatePollData(pending'.formData).error = NoError
               THEN AccessDenied
               ELSE pending'.error =
                      handleServerError(validateUpdatePollData(pending'.formData).error)
       /\ OnlyCreatorChangesPoll]_vars

\* C6 happens: updatePoll with a valid form for another user's poll was
\* answered with the authorization error
C6_Witness ==
    /\ pending.op = "updatePoll"
    /\ pending.caller \in Users
    /\ validateUpdatePollData(pending.formData).error = NoError
    /\ pending.error.type = ErrorType.AUTHORIZATION
    /\ \E p \in polls : p.id = pending.pollId /\ p.creator_id # pending.caller

\* C7: after createPoll succeeded, findByShareToken for the new token gives,
\* to any caller, one poll whose options are the submitted texts, the i-th
\* submitted text (counting from 0) with order_index i and nothing else
C7_OptionsKeepOrder ==
    (pending.op = "createPoll" /\ pending.error = NoError) =>
        \A uid \in Callers :
            LET found == findByShareToken(Db, pending.redirected[2], uid)
                texts == pending.formData.options IN
            /\ Cardinality(found) = 1
            /\ \A f \in found :
                  /\ Cardinality(f.poll_options) = Len(texts)
                  /\ {[text |-> o.text, order_index |-> o.order_index] : o \in f.poll_options}
                       = {[text |-> texts[i], order_index |-> i - 1] : i \in 1..Len(texts)}

\* C7 happens: createPoll succeeded with the options Blue, Red
C7_Witness ==
    /\ pending.op = "createPoll"
    /\ pending.error = NoError
    /\ pending.formData.options = <<"Blue", "Red">>
    /\ \E o \in options : o.text = "Red" /\ o.order_index = 1

\* C10: createPoll, updatePoll, deletePoll and getUserPolls without a signed
\* in user fail with 'Authentication required' (ErrorType.AUTHENTICATION, 401); no
\* table was queried or changed, no path revalidated, no redirect made
C10_UnauthenticatedRejected ==
    [][(/\ pending = NoCall
        /\ pending'.op \in {"createPoll", "updatePoll", "deletePoll", "getUserPolls"}
        /\ pending'.caller = NoUser)
       => (/\ pending'.error = AppError(ActionMessages.authenticationRequired, ErrorType.AUTHENTICATION, 401)
           /\ pending'.touched = {}
           /\ pending'.revalidated = {}
           /\ pending'.redirected = NoPath
           /\ TablesUnchanged)]_vars

\* C10 happens: updatePoll without a signed in user, for an existing poll
\* and with a valid form, was answered 'Authentication required'
C10_Witness ==
    /\ pending.op = "updatePoll"
    /\ pending.caller = NoUser
    /\ pending.error.type = ErrorType.AUTHENTICATION
    /\ validateUpdatePollData(pending.formData).error = NoError
    /\ PollById(Db, pending.pollId) # {}

(***************************************************************************)
(* Properties of the discussion tree                                       *)
(***************************************************************************)
\* the nodes met when walking the tree t from the nodes ids down, a node
\* listed again every time it is met
RECURSIVE Walk(_, _)
Walk(t, ids) ==
    IF ids = <<>> THEN <<>>
    ELSE <<Head(ids)>> \o Walk(t, t.threadMap[Head(ids)].replies) \o Walk(t, Tail(ids))

\* the nodes reachable from the result of the last getDiscussionThreads
TreeNodes == Walk(tree, tree.topLevelThreads)

\* the rows of the last fetch
FetchedRows == {fetchedThreads[i] : i \in DOMAIN fetchedThreads}

\* a reply whose parent is not among the rows
Orphaned(rows, r) ==
    r.parent_id # NoThread /\ ~\E q \in rows : q.id = r.parent_id

\* an orphaned reply, or a row below one
RECURSIVE UnderOrphan(_, _)
UnderOrphan(rows, r) ==
    \/ Orphaned(rows, r)
    \/ \E q \in rows : q.id = r.parent_id /\ UnderOrphan(rows, q)

\* no element of the sequence s occurs twice
NoRepeats(s) == \A i, j \in DOMAIN s : i # j => s[i] # s[j]

\* the rows with the ids of s come in ascending order of created_at
Ascending(s) ==
    \A i, j \in DOMAIN s : i < j =>
        \A a, b \in FetchedRows : (a.id = s[i] /\ b.id = s[j]) => a.created_at <= b.created_at

\* the last call of getDiscussionThreads returned a tree
TreeReturned == pending.op = "getDiscussionThreads" /\ pending.error = NoError

\* the query returned the non-deleted rows of the poll, each once
FetchedTheView ==
    /\ NoRepeats(fetchedThreads)
    /\ FetchedRows = {r \in threads : r.poll_id = pending.pollId /\ ~r.is_deleted}

\* C8, as stated: the tree has as many nodes as non-deleted rows were
\* fetched for the poll, less the replies whose parent is missing from the
\* fetch, and no fetched row is in the tree twice
C8_OnlyOrphansMissing ==
    TreeReturned =>
        /\ FetchedTheView
        /\ Len(TreeNodes) = Len(fetchedThreads)
                              - Cardinality({r \in FetchedRows : Orphaned(FetchedRows, r)})
        /\ NoRepeats(TreeNodes)

\* C8, amended: the tree has as many nodes as non-deleted rows were fetched
\* for the poll, less the replies whose parent is missing from the fetch and
\* the rows below such replies, and no fetched row is in the tree twice
C8_OrphanSubtreesMissing ==
    TreeReturned =>
        /\ FetchedTheView
        /\ Len(TreeNodes) = Len(fetchedThreads)
                              - Cardinality({r \in FetchedRows : UnderOrphan(FetchedRows, r)})
        /\ {TreeNodes[i] : i \in DOMAIN TreeNodes}
             = {r.id : r \in {x \in FetchedRows : ~UnderOrphan(FetchedRows, x)}}
        /\ NoRepeats(TreeNodes)

\* C8 happens: the fetch has a reply whose parent was soft-deleted, and a
\* reply to that reply
C8_Witness ==
    /\ TreeReturned
    /\ \E r \in FetchedRows : Orphaned(FetchedRows, r)
    /\ \E r \in FetchedRows : UnderOrphan(FetchedRows, r) /\ ~Orphaned(FetchedRows, r)

\* C9: the list returned is the non-deleted top-level threads of the poll,
\* each once, in ascending order of creation; for every node of the tree
\* replyCount is the length of replies, and replies is the fetched threads
\* whose parent_id is the node, each once, in ascending order of creation
C9_TopLevelAndReplies ==
    TreeReturned =>
        /\ {tree.topLevelThreads[i] : i \in DOMAIN tree.topLevelThreads}
             = {r.id : r \in {x \in threads : /\ x.poll_id = pending.pollId
                                              /\ ~x.is_deleted
                                              /\ x.parent_id = NoThread}}
        /\ NoRepeats(tree.topLevelThreads)
        /\ Ascending(tree.topLevelThreads)
        /\ \A k \in DOMAIN TreeNodes :
              LET node == tree.threadMap[TreeNodes[k]] IN
              /\ node.replyCount = Len(node.replies)
              /\ {node.replies[i] : i \in DOMAIN node.replies}
                   = {r.id : r \in {x \in FetchedRows : x.parent_id = TreeNodes[k]}}
              /\ NoRepeats(node.replies)
              /\ Ascending(node.replies)

\* C9 happens: a tree whose top-level thread has two replies created at
\* the same time
C9_Witness ==
    /\ TreeReturned
    /\ Len(tree.topLevelThreads) = 1
    /\ \E k \in DOMAIN TreeNodes :
          /\ tree.threadMap[TreeNodes[k]].replyCount = 2
          /\ \A a, b \in FetchedRows :
                (a.parent_id = TreeNodes[k] /\ b.parent_id = TreeNodes[k])
                    => a.created_at = b.created_at

(***************************************************************************)
(* Properties of validation, deactivation and deletion                     *)
(***************************************************************************)
\* the form data the documentation calls valid: a title of 1 to 200
\* characters, 2 to 20 options that are each non-empty and of at most 500
\* characters, and a description, if any, within the limit of the schema
DocumentedValid(formData) ==
    /\ formData.title # NoValue
    /\ TextLen(formData.title) >= 1 /\ TextLen(formData.title) <= TitleMaxLen
    /\ Len(formData.options) >= TriggerMinOptions
    /\ Len(formData.options) <= TriggerMaxOptions
    /\ \A i \in 1..Len(formData.options) :
          /\ TextLen(formData.options[i]) >= 1
          /\ TextLen(formData.options[i]) <= OptionTextMaxLen
    /\ (formData.description = NoValue
        \/ TextLen(formData.description) <= DescriptionMaxLen)

\* C11, as stated: createPoll by a signed-in user (with no expiry date in
\* the form) succeeds exactly when the form data is valid as documented;
\* otherwise it throws a validation error and writes no poll and no option
C11_AcceptedIffValid ==
    [][(/\ Answers("createPoll")
        /\ pending'.caller \in Users
        /\ pending'.formData.expiresAt = NoDate)
       => IF DocumentedValid(pending'.formData)
          THEN pending'.error = NoError
          ELSE /\ pending'.error.type = ErrorType.VALIDATION
               /\ polls' = polls
               /\ options' = options]_vars

\* the step answers updatePoll called by the creator of the poll with the
\* payload of the edit page, its switch isActive turned off
CreatorSwitchesOff ==
    /\ Answers("updatePoll")
    /\ pending'.formData \in EditPageForms
    /\ pending'.formData.isActive = NoValue
    /\ \E p \in polls : p.id = pending'.pollId /\ p.creator_id = pending'.caller

\* C12, as stated: the creator deactivates the poll from the edit page: the
\* call succeeds and the poll's is_active is false afterwards; and a vote
\* on a poll that is not active is rejected as 'no longer active'
C12_CreatorDeactivates ==
    [][/\ CreatorSwitchesOff
          => /\ pending'.error = NoError
             /\ \A p \in polls' : p.id = pending'.pollId => ~p.is_active
       /\ (/\ Answers("submitVote")
           /\ pending'.pollId # NoId /\ pending'.optionId # NoId
           /\ \E p \in polls : p.id = pending'.pollId /\ ~p.is_active)
          => /\ pending'.error # NoError
             /\ votes' = votes]_vars

\* the step answers a vote cast without a signed-in user on a poll that is
\* active and not expired, for an option of that poll
AnonymousVote ==
    /\ Answers("submitVote")
    /\ pending'.caller = NoUser
    /\ \E p \in polls : /\ p.id = pending'.pollId
                        /\ p.is_active
                        /\ (p.expires_at = NoDate \/ p.expires_at > now)
    /\ \E o \in options : o.id = pending'.optionId /\ o.poll_id = pending'.pollId

\* C13, as stated: an anonymous vote on an open poll, for one of its
\* options, succeeds and adds one vote row for that option
C13_AnonymousVoteAccepted ==
    [][AnonymousVote
       => /\ pending'.error = NoError
          /\ \E v \in votes' \ votes : /\ v.poll_id = pending'.pollId
                                       /\ v.option_id = pending'.optionId
                                       /\ v.voter_id = NoUser]_vars

\* the step answers deletePoll called by the creator of a poll that has at
\* least 2 options
CreatorDeletesPoll ==
    /\ Answers("deletePoll")
    /\ \E p \in polls : p.id = pending'.pollId /\ p.creator_id = pending'.caller
    /\ Cardinality(OptionsOf(Db, pending'.pollId)) >= TriggerMinOptions

\* C14, as stated: deletePoll by the creator of a poll with its options
\* succeeds, and no row of polls, poll_options or votes of that poll is left
C14_DeleteRemovesEverything ==
    [][CreatorDeletesPoll
       => /\ pending'.error = NoError
          /\ ~\E p \in polls' : p.id = pending'.pollId
          /\ ~\E o \in options' : o.poll_id = pending'.pollId
          /\ ~\E v \in votes' : v.poll_id = pending'.pollId]_vars

\* the answered request came through one of the HTTP routes and failed
RouteError ==
    /\ pending.op \in {"POST", "GET", "PUT", "DELETE"}
    /\ pending.error # NoError

\* C15, as stated: the status of an error response is 401, 403, 400, 404
\* or 429 for the five named types and 500 for every other type
C15_OtherTypesGive500 ==
    RouteError =>
        pending.status = CASE pending.error.type = ErrorType.AUTHENTICATION -> 401
                           [] pending.error.type = ErrorType.AUTHORIZATION -> 403
                           [] pending.error.type = ErrorType.VALIDATION -> 400
                           [] pending.error.type = ErrorType.NOT_FOUND -> 404
                           [] pending.error.type = ErrorType.RATE_LIMIT -> 429
                           [] OTHER -> 500

\* C15, amended: the status of an error response is the one of the error's
\* type: 401, 403, 400, 404, 429, 503 for a network error, and 500 for a
\* database or unknown error
C15_StatusFollowsType ==
    RouteError =>
        /\ pending.error.isAppError
        /\ pending.status = CASE pending.error.type = ErrorType.AUTHENTICATION -> 401
                              [] pending.error.type = ErrorType.AUTHORIZATION -> 403
                              [] pending.error.type = ErrorType.VALIDATION -> 400
                              [] pending.error.type = ErrorType.NOT_FOUND -> 404
                              [] pending.error.type = ErrorType.RATE_LIMIT -> 429
                              [] pending.error.type = ErrorType.NETWORK -> 503
                              [] pending.error.type \in {ErrorType.DATABASE, ErrorType.UNKNOWN} -> 500

\* C15 happens: GET /api/polls of a signed-in user was answered with the
\* status of a network error
C15_Witness ==
    /\ pending.op = "GET"
    /\ pending.caller \in Users
    /\ pending.error.type = ErrorType.NETWORK
    /\ pending.status = 503

(***************************************************************************)
(* Properties of classifyError and withErrorHandling                       *)
(***************************************************************************)
\* the categories in the order the claim gives, each with its keyword list
CategoryOrder ==
    << [type |-> ErrorType.AUTHENTICATION, keywords |-> Keywords.authentication],
       [type |-> ErrorType.AUTHORIZATION, keywords |-> Keywords.authorization],
       [type |-> ErrorType.VALIDATION, keywords |-> Keywords.validation],
       [type |-> ErrorType.NETWORK, keywords |-> Keywords.network],
       [type |-> ErrorType.RATE_LIMIT, keywords |-> Keywords.rateLimit],
       [type |-> ErrorType.NOT_FOUND, keywords |-> Keywords.notFound],
       [type |-> ErrorType.DATABASE, keywords |-> Keywords.database] >>

\* the positions of the categories whose list has a keyword that occurs in
\* the lower-cased message
MatchingCategories(message) ==
    {c \in 1..Len(CategoryOrder) :
        \E i \in 1..Len(CategoryOrder[c].keywords) :
            Includes(ToLowerCase(message), CategoryOrder[c].keywords[i])}

\* C16: classifyError gives an Error that is no AppError the first category,
\* in the order authentication, authorization, validation, network, rate
\* limit, not found, database, that has a keyword in the lower-cased
\* message, and ErrorType.UNKNOWN when no category has one; the message is kept
C16_FirstMatchingCategory ==
    (/\ pending.op = "classifyError"
     /\ ~outcome.error.isAppError
     /\ outcome.error.kind = "Error")
    => LET hits == MatchingCategories(outcome.error.message) IN
       /\ pending.error.isAppError
       /\ pending.error.message = outcome.error.message
       /\ pending.error.type =
            IF hits = {} THEN ErrorType.UNKNOWN
            ELSE CategoryOrder[CHOOSE c \in hits : \A d \in hits : c <= d].type

\* C16 happens: 'Invalid login credentials', which has keywords of the
\* authentication and of the validation list, was classified ErrorType.AUTHENTICATION
C16_Witness ==
    /\ pending.op = "classifyError"
    /\ outcome.error = PlainError(TestMessages[1])
    /\ MatchingCategories(outcome.error.message) = {1, 3}
    /\ pending.error.type = ErrorType.AUTHENTICATION
    /\ pending.error.statusCode = 401

\* C17: a function wrapped by withErrorHandling resolves to the function's
\* value when it returns; rethrows the very AppError it threw; and throws
\* the AppError classifyError makes of any other thrown value, so that what
\* is thrown is always an AppError
C17_WrappedOutcome ==
    pending.op = "withErrorHandling"
    => IF outcome.error = NoError
       THEN /\ pending.error = NoError
            /\ pending.touched = outcome.touched
            /\ pending.revalidated = outcome.revalidated
            /\ pending.redirected = outcome.redirected
       ELSE /\ pending.error.isAppError
            /\ pending.error.message =
                  (IF outcome.error.kind = "object" THEN MsgUnknownError
                   ELSE outcome.error.message)
            /\ outcome.error.isAppError => pending.error = outcome.error
            /\ ~outcome.error.isAppError =>
                  /\ pending.error = classifyError(outcome.error)
                  /\ outcome.error.kind # "Error" => pending.error.type = ErrorType.UNKNOWN

\* C17 happens: the function threw an AppError of type ErrorType.UNKNOWN whose message
\* 'Invalid login credentials' alone would be classified ErrorType.AUTHENTICATION, and
\* that same AppError came out
C17_Witness ==
    /\ pending.op = "withErrorHandling"
    /\ outcome.error = AppError(TestMessages[1], ErrorType.UNKNOWN, 500)
    /\ pending.error = outcome.error

(***************************************************************************)
(* Properties of the vote counts                                           *)
(***************************************************************************)
\* the number of vote rows of the poll for the option
VoteRowsFor(pollId, optionId) ==
    Cardinality({v \in votes : v.poll_id = pollId /\ v.option_id = optionId})

\* C18: getVoteCountsByOption has an entry exactly for the option ids that
\* occur in the votes of the poll, each the number of its vote rows;
\* findWithResults gives every option of the poll that number as vote_count
\* (0 without votes) and the number of all vote rows as total_votes
C18_CountsPerOption ==
    /\ pending.op = "getVoteCountsByOption" =>
          /\ DOMAIN pending.data = {v.option_id : v \in VotesOf(Db, pending.pollId)}
          /\ \A id \in DOMAIN pending.data :
                pending.data[id] = VoteRowsFor(pending.pollId, id)
    /\ pending.op = "findWithResults" =>
          \A found \in pending.data :
             /\ found.poll.id = pending.pollId
             /\ {o.id : o \in found.poll_options} = {o.id : o \in OptionsOf(Db, pending.pollId)}
             /\ \A o \in found.poll_options : o.vote_count = VoteRowsFor(pending.pollId, o.id)
             /\ found.total_votes = Cardinality(VotesOf(Db, pending.pollId))

\* C18 happens: findWithResults found a poll with an option without votes
\* and an option with several votes
C18_Witness ==
    /\ pending.op = "findWithResults"
    /\ \E found \in pending.data :
          /\ \E o \in found.poll_options : o.vote_count = 0
          /\ \E o \in found.poll_options : o.vote_count > 1
          /\ found.total_votes > 1

(***************************************************************************)
(* Properties of the AuthProvider                                          *)
(***************************************************************************)
\* the step is the arrival of the result of getSession
SessionArrives == auth.getSession = "pending" /\ auth'.getSession # "pending"

\* C19: isLoading is true while getSession is awaited and false once its
\* result, session or error, has been handled; an error leaves user and
\* session as they were (null unless an auth state change has set them);
\* the cleanup of the effect unsubscribes exactly once; and a result that
\* arrives after the cleanup changes nothing of user, session and isLoading
C19_ProviderLifecycle ==
    /\ [](/\ auth.getSession = "pending" => auth.isLoading
          /\ auth.getSession \in {"session", "error"} => ~auth.isLoading
          /\ (auth.getSession = "error" /\ auth.refreshCalls = 0) =>
                (auth.user = NoUser /\ auth.session = NoSession)
          /\ auth.unsubscribeCalls = (IF auth.mounted THEN 0 ELSE 1)
          /\ auth.subscribed = auth.mounted)
    /\ [][SessionArrives =>
            /\ auth'.getSession \in {"error", "dropped"} =>
                  (auth'.user = auth.user /\ auth'.session = auth.session)
            /\ ~auth.mounted =>
                  /\ auth'.getSession = "dropped"
                  /\ auth'.isLoading = auth.isLoading
                  /\ auth'.unsubscribeCalls = auth.unsubscribeCalls]_vars

\* C19 happens: the result of getSession arrived after the provider was
\* unmounted and its subscription ended
C19_Witness ==
    /\ auth.getSession = "dropped"
    /\ ~auth.mounted
    /\ auth.unsubscribeCalls = 1
    /\ auth.isLoading
    /\ auth.user = NoUser

(***************************************************************************)
(* Properties of concurrent vote inserts                                   *)
(***************************************************************************)
\* two committed rows of one identity on a poll that allows one vote
SameVoterTwice(v1, v2) ==
    /\ v1.id # v2.id
    /\ v1.poll_id = v2.poll_id
    /\ v1.voter_id = v2.voter_id
    /\ \E p \in polls : p.id = v1.poll_id /\ ~p.allow_multiple_votes

\* C20: the vote rows are the rows of the committed transactions, and an
\* identity has two votes on a poll with allow_multiple_votes = false only
\* when neither row was committed at the time the triggers of the other
\* ran, that is, when both submissions passed the check before either commit
C20_TwoVotesOnlyWhenConcurrent ==
    /\ votes = {t.vote : t \in {u \in inflight : u.committed}}
    /\ \A t1, t2 \in inflight :
          (t1.committed /\ t2.committed /\ SameVoterTwice(t1.vote, t2.vote)) =>
             (t1.vote.id \notin t2.seen /\ t2.vote.id \notin t1.seen)

\* C20 happens: one identity has two votes on a poll that allows one vote
C20_Witness ==
    \E v1, v2 \in votes : SameVoterTwice(v1, v2)

(***************************************************************************)
(* Properties of the two inserts of createPoll                             *)
(***************************************************************************)
\* the step answers a createPoll whose option rows were refused: the error
\* is the one PollOptionService.createMany throws
OptionInsertFailed ==
    /\ Answers("createPoll")
    /\ pending'.error # NoError
    /\ Len(pending'.error.message) >= Len(FailedTo.createPollOptions)
    /\ SubSeq(pending'.error.message, 1, Len(FailedTo.createPollOptions))
          = FailedTo.createPollOptions

\* C21: when the insert of the options fails after the insert of the poll
\* succeeded, createPoll fails, the poll row is there afterwards without any
\* option, no path is revalidated and no redirect is made; and no step takes
\* a poll row away except a deletePoll called by its creator
C21_OrphanedPollRemains ==
    [][/\ OptionInsertFailed =>
            /\ \E p \in polls' : /\ polls' = polls \cup {p}
                                 /\ p \notin polls
                                 /\ p.creator_id = pending'.caller
                                 /\ ~\E o \in options' : o.poll_id = p.id
            /\ options' = options
            /\ pending'.revalidated = {}
            /\ pending'.redirected = NoPath
            /\ pending'.error.isAppError
       /\ \A p \in polls : (~\E q \in polls' : q.id = p.id) =>
            (Answers("deletePoll") /\ pending'.caller = p.creator_id)]_vars

\* C21 happens: createPoll failed and left a poll that has no option
C21_Witness ==
    /\ pending.op = "createPoll"
    /\ pending.error # NoError
    /\ pending.redirected = NoPath
    /\ \E p \in polls : p.creator_id = pending.caller /\ OptionsOf(Db, p.id) = {}

(***************************************************************************)
(* Properties of the replacement of the options                            *)
(***************************************************************************)
\* the step answers updateMany, called by the creator of a poll that has 2
\* or more options, with a list of 2 to 20 options
CreatorReplacesOptions ==
    /\ Answers("updateMany")
    /\ \E p \in polls : p.id = pending'.pollId /\ p.creator_id = pending'.caller
    /\ Cardinality(OptionsOf(Db, pending'.pollId)) >= TriggerMinOptions
    /\ Len(pending'.formData.options) >= TriggerMinOptions
    /\ Len(pending'.formData.options) <= TriggerMaxOptions

\* C22, as stated: updateMany on a poll with 2 or more options and a list
\* of 2 to 20 options succeeds, and afterwards the options of the poll are
\* the supplied texts with their positions as order_index, none of the
\* previous rows remaining
C22_OptionsReplaced ==
    [][CreatorReplacesOptions =>
         LET texts == pending'.formData.options
             after == {o \in options' : o.poll_id = pending'.pollId} IN
         /\ pending'.error = NoError
         /\ after \cap options = {}
         /\ {<<o.text, o.order_index>> : o \in after}
              = {<<texts[i], i - 1>> : i \in 1..Len(texts)}
         /\ Cardinality(after) = Len(texts)]_vars

(***************************************************************************)
(* Properties of the discussion after soft deletions                       *)
(***************************************************************************)
\* r is soft-deleted or descends from a soft-deleted row of the table
RECURSIVE BelowDeleted(_, _)
BelowDeleted(rows, r) ==
    \/ r.is_deleted
    \/ \E q \in rows : q.id = r.parent_id /\ BelowDeleted(rows, q)

\* C23: the result of getDiscussionThreads has no soft-deleted thread and
\* no thread that descends from one, neither at the top level nor in the
\* replies of any thread of the result
C23_DeletedSubtreesOmitted ==
    (pending.op = "getDiscussionThreads" /\ pending.error = NoError) =>
        \A r \in threads :
            (r.poll_id = pending.pollId /\ BelowDeleted(threads, r)) =>
                /\ \A k \in DOMAIN TreeNodes : TreeNodes[k] # r.id
                /\ \A i \in DOMAIN tree.topLevelThreads : tree.topLevelThreads[i] # r.id
                /\ \A k \in DOMAIN TreeNodes :
                      \A j \in DOMAIN tree.threadMap[TreeNodes[k]].replies :
                          tree.threadMap[TreeNodes[k]].replies[j] # r.id

\* C23 happens: a soft-deleted thread has a reply that is not deleted, which
\* has a reply that is not deleted, and the discussion of their poll was read
C23_Witness ==
    /\ pending.op = "getDiscussionThreads" /\ pending.error = NoError
    /\ \E a, b, c \in threads :
          /\ a.poll_id = pending.pollId /\ a.is_deleted
          /\ b.parent_id = a.id /\ ~b.is_deleted
          /\ c.parent_id = b.id /\ ~c.is_deleted

(***************************************************************************)
(* Properties of the discussion actions                                    *)
(***************************************************************************)
\* the step answers updateDiscussionThread or deleteDiscussionThread
AnswersThreadWrite == Answers("updateDiscussionThread") \/ Answers("deleteDiscussionThread")

\* the rows of the table that the answered call named
Target == {r \in threads : r.id = pending'.data.threadId}

\* C24, as stated: deleteDiscussionThread, called by the author of a thread
\* that is not soft-deleted, succeeds and changes nothing but the thread's
\* is_deleted flag, which becomes true: the row stays, with its content,
\* parent_id, poll_id and user_id, and every other row is as it was
C24_DeleteOnlyFlipsFlag ==
    [][(/\ Answers("deleteDiscussionThread")
        /\ \E r \in Target : r.user_id = pending'.caller /\ ~r.is_deleted) =>
         /\ pending'.error = NoError
         /\ threads' = (threads \ Target) \cup {[r EXCEPT !.is_deleted = TRUE] : r \in Target}]_vars

AnswersReply == Answers("createDiscussionThread") /\ pending'.data.input.parent_id # NoThread

\* the thread the answered createDiscussionThread named as parent exists in
\* the table rows, is not soft-deleted and belongs to the poll of the reply
ParentFits(rows) ==
    \E q \in rows : /\ q.id = pending'.data.input.parent_id
                    /\ ~q.is_deleted
                    /\ q.poll_id = pending'.data.input.poll_id

\* b is reached from a by following parent_id at most n times
RECURSIVE Reaches(_, _, _, _)
Reaches(rows, a, b, n) ==
    /\ n > 0
    /\ \E q \in rows : q.id = a.parent_id /\ (q = b \/ Reaches(rows, q, b, n - 1))

\* each reply's parent is a thread of the same poll, no thread is its own
\* parent, and the parent relation has no cycle
ParentsWellFormed ==
    \A r \in threads :
        /\ r.parent_id # r.id
        /\ r.parent_id # NoThread => \E q \in threads : q.id = r.parent_id /\ q.poll_id = r.poll_id
        /\ ~Reaches(threads, r, r, Cardinality(threads))

\* C26, as stated: createDiscussionThread inserts a reply only when its
\* parent exists, is not soft-deleted and is of the same poll; otherwise it
\* fails with NOT_FOUND or VALIDATION and inserts nothing; and the parent
\* relation is well formed in every reachable state
C26_RepliesHaveFittingParents ==
    /\ []ParentsWellFormed
    /\ [][AnswersReply =>
            /\ threads' # threads => ParentFits(threads)
            /\ ~ParentFits(threads) =>
                  /\ threads' = threads
                  /\ pending'.error.type \in {ErrorType.NOT_FOUND, ErrorType.VALIDATION}]_vars

\* C26, amended: as C26, the failure being AUTHENTICATION when no user is
\* signed in and NOT_FOUND or VALIDATION otherwise
C26_RepliesOfUsersHaveFittingParents ==
    /\ []ParentsWellFormed
    /\ [][AnswersReply =>
            /\ threads' # threads => ParentFits(threads)
            /\ ~ParentFits(threads) =>
                  /\ threads' = threads
                  /\ IF pending'.caller = NoUser
                     THEN pending'.error.type = ErrorType.AUTHENTICATION
                     ELSE pending'.error.type \in {ErrorType.NOT_FOUND, ErrorType.VALIDATION}]_vars

\* C26 happens: a reply to a reply was inserted, and a later reply named a
\* parent of the other poll and was refused
C26_Witness ==
    /\ pending.op = "createDiscussionThread"
    /\ pending.caller # NoUser
    /\ pending.error.type = ErrorType.VALIDATION
    /\ \E q \in threads : /\ q.id = pending.data.input.parent_id
                          /\ ~q.is_deleted
                          /\ q.poll_id # pending.data.input.poll_id
                          /\ pending.data.input.poll_id # NoId
                          /\ q.parent_id # NoThread

SumOfValues(voteCountMap) ==
    SumCounts(Rows({[id |-> k, vote_count |-> voteCountMap[k]] : k \in DOMAIN voteCountMap}))

\* C27: for every poll and every caller, getTotalVotes, the sum of the
\* values of getVoteCountsByOption and, where the poll page is rendered for
\* the caller, the total of the page are the same number
C27_TotalsAgree ==
    \A p \in polls : \A uid \in Callers :
        /\ getTotalVotes(Db, p.id, uid) = SumOfValues(getVoteCountsByOption(Db, p.id, uid))
        /\ ~PollPage(Db, p.share_token, uid, now).notFound =>
              PollPage(Db, p.share_token, uid, now).totalVotes = getTotalVotes(Db, p.id, uid)

\* C27 happens: an option that had a vote has just been deleted, the vote
\* going with it, from a poll that has another vote left
C27_Witness ==
    /\ pending.op = "deleteOption"
    /\ pending.error = NoError
    /\ Cardinality(options) < nextOptionId - 1
    /\ Cardinality(votes) < nextVoteId - 1
    /\ \E p \in polls : getTotalVotes(Db, p.id, p.creator_id) >= 1

(***************************************************************************)
(* Properties of the vote form                                             *)
(***************************************************************************)
\* C28, as stated: the form submitted with a non-empty selection of options
\* of an active, unexpired poll (several only where the poll allows multiple
\* votes) reports success and records one vote of the caller for every
\* selected option
C28_FormRecordsSelection ==
    [][(/\ Answers("handleSubmit")
        /\ pending'.data.selectedOptions # <<>>
        /\ \E p \in polls :
              /\ p.id = pending'.pollId
              /\ p.is_active
              /\ (p.expires_at = NoDate \/ p.expires_at > now)
              /\ Len(pending'.data.selectedOptions) > 1 => p.allow_multiple_votes
              /\ \A i \in DOMAIN pending'.data.selectedOptions :
                    \E o \in options : o.id = pending'.data.selectedOptions[i]
                                       /\ o.poll_id = p.id) =>
         /\ pending'.error = NoError
         /\ pending'.data.toast = "success"
         /\ \A i \in DOMAIN pending'.data.selectedOptions :
               \E v \in votes' \ votes : /\ v.poll_id = pending'.pollId
                                         /\ v.option_id = pending'.data.selectedOptions[i]
                                         /\ v.voter_id = pending'.caller]_vars
====
